---- MODULE Spec2Model ----
(***************************************************************************)
(* Import orchestration of fyle_integrations_imports: the scheduled entry  *)
(* point (tasks.trigger_import_via_schedule), the run controller           *)
(* (modules/base.py Base.check_import_log_and_start_import and the run     *)
(* body behind it) and the ImportLog row they share.                       *)
(*                                                                         *)
(* One (workspace, attribute type) pair is modelled.  Each element of      *)
(* Workers is one invocation of the scheduled task, executed by a worker   *)
(* of the task queue; invocations interleave at their database accesses.   *)
(* Time is counted in minutes.  datetime.now() is read with the host       *)
(* running in UTC, the zone that base.py:385 attaches to the reading.      *)
(***************************************************************************)
EXTENDS Integers, Sequences, FiniteSets, TLC

\* ------------------------------------------------------------------ bounds
MaxTime == 45
MaxPages == 2
TickMinutes == 20

\* ------------------------------------------------------- program constants
FreshnessMinutes == 30
QbdExtraMinutes == 20
BatchSize == 200

Workers == {1, 2}
SageFileExport == "Sage File Export"
AppNames == {"QUICKBOOKS", SageFileExport}
SdkConnectionStrings == {"", "apps.sdk.Connector"}
PagedFields == {"PROJECT", "CATEGORY", "COST_CENTER", "TAX_GROUP"}
SourceFields == PagedFields \cup {"MERCHANT", "CUSTOM_FIELD"}
ErrorKinds == {"InvalidTokenError", "WrongParamsError"}
\* sizes of the filtered destination set: none, exactly one page, and
\* MaxPages pages of which the last holds one attribute
DestinationCounts == {0, BatchSize, (MaxPages - 1) * BatchSize + 1}

VARIABLES
    app_name,        \* apps.workspaces.helpers.get_app_name() of the host
    source_field,    \* attribute type of the modelled pair
    sdk_connection_string,
    now,             \* the clock, minutes
    import_logs,     \* rows of the import_logs table for the pair
    updated_at,      \* the row's updated_at column
    pc,              \* pc[w]: where invocation w stands
    self,            \* self[w]: the module instance and its import_log object
    hist,            \* hist[w]: what invocation w saw at the guard and has done
                     \* since (history); dropped when its run ends
    last_writer,     \* the invocation that saved the row last (history)
    last_success_at  \* time of the latest COMPLETE save (history), {} if none

\* the webhook path (modules/webhook_attributes.py, signals.py)
VARIABLES
    resource,           \* resource type of the webhooks of the modelled pair
    cache_keys_agree,   \* whether the two CacheKeyEnum members used format to
                        \* one key (fyle_accounting_library decides)
    cache,              \* the Django cache, by key: "None", "True" or "False"
    wpc,                \* where the webhook handler stands
    webhook_body,       \* the webhook it is processing; action, id and invite
                        \* flag of the one it has processed last
    import_in_progress, \* the handler's local of _is_import_in_progress
    signal_pending,     \* a save has written the row, its post_save receiver
                        \* has not run yet
    expense_attributes  \* ExpenseAttribute rows of the workspace

\* the paginator (modules/base.py:246-307)
VARIABLES
    destination_attributes,        \* DestinationAttribute rows of the pair
    active_filter,                 \* whether the filter of the run has active = True
    destination_attributes_count,  \* the count taken before the first page
    generator_offset,              \* offset of the page the generator fetches next
    pages,                         \* the pages fetched so far (history)
    gpc,                           \* where the generator stands
    destination_changed,           \* a row was written after the count (history)
    counted_attributes             \* the rows the count has counted (history)

paginator_vars == <<destination_attributes, active_filter,
                    destination_attributes_count, generator_offset, pages, gpc,
                    destination_changed, counted_attributes>>
\* the removal of duplicates (modules/base.py:105-161)
VARIABLES
    attribute_list,        \* the destination attributes handed to the function
    prepend_code,          \* its prepend_code parameter
    prepend_code_to_name,  \* self.prepend_code_to_name of the module
    unique_attributes,     \* what it returned
    unique_again,          \* what it returned when applied to that
    dpc                    \* how often it has been applied

dedup_vars == <<attribute_list, prepend_code, prepend_code_to_name,
                unique_attributes, unique_again, dpc>>
\* the payload of a run (construct_fyle_payload of the modules)
VARIABLES
    module_kind,             \* source field of the module
    is_auto_sync_enabled,    \* self.is_auto_sync_enabled
    destination_rows,        \* DestinationAttribute rows of the pair
    platform_attributes,     \* ExpenseAttribute rows of the pair
    page,                    \* the destination attributes of the latest call
    payload_first,           \* what the first call returned
    payload_second,          \* what the second call returned
    ppc                      \* where the two calls stand

\* one call of setup_fyle_payload_creation of a paged module
VARIABLES
    reconciled_field,              \* source field of the module
    reconciled_auto_sync,          \* self.is_auto_sync_enabled
    paginated_attributes,          \* the page of destination attributes
    expense_attribute_rows,        \* ExpenseAttribute rows of the source field
    existing_fyle_attributes_map,  \* lower-cased value -> source_id
    fyle_payload,                  \* what construct_fyle_payload returned
    rpc                            \* where the call stands
\* one destination attribute against the filter of a category import
VARIABLES
    destination_sync_methods,  \* self.destination_sync_methods
    filter_sync_after,         \* self.sync_after: {} (None) or {time}
    candidate,                 \* a DestinationAttribute row of the pair
    candidate_selected,        \* whether the filtered query returned it
    fpc                        \* where the query stands
\* one execution of the body of a run, statement by statement
VARIABLES
    body_field,                    \* self.source_field
    body_is_3d_mapping,            \* self.is_3d_mapping
    body_sdk_connection,           \* self.sdk_connection and what it provides
    body_count,                    \* rows the filter of the pair selects
    body_import_log,               \* the ImportLog object the body was given
    body_row,                      \* the row as last saved
    statement,                     \* the statement of the body that is next
    bpc,                           \* where the statement stands
    body_offset,                   \* offset of the generator
    page_has_rows,                 \* whether the fetched page holds rows
    payload_is_empty,              \* whether its fyle_payload is empty
    posted_destination_attributes, \* "None", "empty" or "rows"
    trace                          \* the calls made and the saves, in order
\* concurrent calls that fetch or create the ImportLog row of one pair
VARIABLES
    import_log_table,   \* the rows of the pair in the ImportLog table
    caller_kind,        \* per caller: the manager method it calls
    cpc,                \* per caller: where the call stands
    row_created,        \* per caller: the created flag it was returned
    integrity_error     \* per caller: whether its INSERT was rejected
\* one call of chain_import_fields_to_fyle and the run of its chain
VARIABLES
    task_settings,   \* the TaskSetting the host passes
    chain,           \* the tasks appended to the Chain, in order
    chain_position,  \* how many of them the cluster has executed
    kpc              \* where the call stands

payload_vars == <<module_kind, is_auto_sync_enabled, destination_rows,
                  platform_attributes, page, payload_first, payload_second, ppc>>
reconcile_vars == <<reconciled_field, reconciled_auto_sync, paginated_attributes,
                    expense_attribute_rows, existing_fyle_attributes_map,
                    fyle_payload, rpc>>
filter_vars == <<destination_sync_methods, filter_sync_after, candidate,
                 candidate_selected, fpc>>
body_vars == <<body_field, body_is_3d_mapping, body_sdk_connection, body_count,
               body_import_log, body_row, statement, bpc, body_offset,
               page_has_rows, payload_is_empty, posted_destination_attributes, trace>>
\* the state of the executions that are followed step by step
race_vars == <<import_log_table, caller_kind, cpc, row_created, integrity_error>>
chain_vars == <<task_settings, chain, chain_position, kpc>>
side_vars == <<body_vars, race_vars, chain_vars>>
\* the state of the two single calls and of those executions
call_vars == <<reconcile_vars, filter_vars, side_vars>>
import_vars == <<app_name, source_field, sdk_connection_string, now, import_logs,
                 updated_at, pc, self, hist, last_writer, last_success_at>>
webhook_vars == <<resource, cache_keys_agree, cache, wpc, webhook_body,
                  import_in_progress, signal_pending, expense_attributes>>
vars == <<import_vars, webhook_vars, paginator_vars, dedup_vars, payload_vars, call_vars>>
config == <<app_name, source_field, sdk_connection_string>>
\* what a call of the import leaves alone: the state of the other paths
elsewhere == <<webhook_vars, paginator_vars, dedup_vars, payload_vars, call_vars>>
\* what the webhook path leaves alone of the import's state
import_calls == <<app_name, source_field, sdk_connection_string, now, updated_at,
                  pc, self, hist, last_writer, last_success_at, paginator_vars,
                  dedup_vars, payload_vars, call_vars>>
\* what a step of the body leaves alone
off_body == <<import_vars, webhook_vars, paginator_vars, dedup_vars, payload_vars,
              reconcile_vars, filter_vars, race_vars, chain_vars>>
\* what a step of a manager call leaves alone
off_race == <<import_vars, webhook_vars, paginator_vars, dedup_vars, payload_vars,
              reconcile_vars, filter_vars, body_vars, chain_vars>>
\* what the chain leaves alone
off_chain == <<import_vars, webhook_vars, paginator_vars, dedup_vars, payload_vars,
               reconcile_vars, filter_vars, body_vars, race_vars>>

\* ------------------------------------------------------------- ImportLog
\* models.ImportLog with the column defaults; a nullable timestamp is the
\* empty set or a singleton.
NewImportLog(status) ==
    [status |-> status,
     error_log |-> <<>>,
     total_batches_count |-> 0,
     processed_batches_count |-> 0,
     last_successful_run_at |-> {}]

TheLog == CHOOSE r \in import_logs : TRUE

\* Model.save(): every column of the row is overwritten from the object, and
\* updated_at is stamped (models.py:29, auto_now).
save(w, import_log) ==
    /\ import_logs' = {import_log}
    /\ updated_at' = now
    /\ last_writer' = w

\* ----------------------------------------------------- pure computations
\* the reading of the clock without the 30 minutes taken off
offset_aware_time_difference_without_window(t) == t

\* base.py:384-385
offset_aware_time_difference(t) == t - FreshnessMinutes

\* tasks.py:70
read_sync_after == IF import_logs = {} THEN {} ELSE TheLog.last_successful_run_at

\* the watermark moved back whatever the connection string
adjusted_sync_after_for_every_connection(conn_string, sync_after) ==
    {t - QbdExtraMinutes : t \in sync_after}

\* tasks.py:71-82: the connection stays None for an empty connection string,
\* and the watermark is then moved back
adjusted_sync_after(conn_string, sync_after) ==
    IF conn_string = ""
    THEN {t - QbdExtraMinutes : t \in sync_after}
    ELSE sync_after

\* the guard without its IN_PROGRESS half
skip_import_on_watermark_only(app, status, is_created, sync_after, t) ==
    /\ app \notin {SageFileExport}
    /\ \E s \in sync_after : s > offset_aware_time_difference(t)

\* the guard with is_created taken for its negation
skip_import_when_created(app, status, is_created, sync_after, t) ==
    /\ app \notin {SageFileExport}
    /\ \/ (status = "IN_PROGRESS" /\ is_created)
       \/ \E s \in sync_after : s > offset_aware_time_difference(t)

\* the guard with the app name exempting from the IN_PROGRESS half only
skip_import_sage_keeps_window(app, status, is_created, sync_after, t) ==
    \/ (app \notin {SageFileExport} /\ status = "IN_PROGRESS" /\ ~is_created)
    \/ \E s \in sync_after : s > offset_aware_time_difference(t)

\* base.py:387-388, the condition under which the call returns
skip_import(app, status, is_created, sync_after, t) ==
    /\ app \notin {SageFileExport}
    /\ \/ (status = "IN_PROGRESS" /\ ~is_created)
       \/ \E s \in sync_after : s > offset_aware_time_difference(t)

\* the number of batches rounded down, plus one
total_batches_one_past_floor(field, count) ==
    IF field \in PagedFields
    THEN count \div BatchSize + 1
    ELSE 1

\* base.py:271 (math.ceil(count / 200)); merchants.py:116 and
\* expense_custom_fields.py:181 (a single batch)
total_batches(field, count) ==
    IF field \in PagedFields
    THEN (count + BatchSize - 1) \div BatchSize
    ELSE 1

\* the flag raised only past the counted rows
is_last_batch_past_the_count(field, offset, count) ==
    IF field \in PagedFields THEN offset + BatchSize > count ELSE TRUE

\* base.py:305; merchants.py:125 and expense_custom_fields.py:197 pass True
is_last_batch(field, offset, count) ==
    IF field \in PagedFields THEN offset + BatchSize >= count ELSE TRUE

\* tax_groups.py:13-24 passes is_auto_sync_enabled to Base.__init__
\* (base.py:44-55), which has no such parameter: TypeError
constructor_accepts(field) == field # "TAX_GROUP"

\* the body without its decorator
is_decorated_nowhere(field) == FALSE

\* where an exception of the body ends: the decorator of base.py:163,
\* merchants.py:131 and expense_custom_fields.py:204 wraps every module's
\* import_destination_attribute_to_fyle
is_decorated(field) == TRUE

\* ------------------------------------------------------------ invocations
BodyPcs == {"sync", "count", "batch", "after_import"}
\* between the call's IN_PROGRESS save and its COMPLETE, FAILED or FATAL save
SpanPcs == {"sync", "count", "batch"}
InSpan(w) == pc[w] \in SpanPcs

\* the module instance of one call; it is gone when the call ends
NewSelf ==
    [sync_after |-> {}, is_created |-> FALSE,
     import_log |-> NewImportLog("NONE"), count |-> 0, offset |-> 0]

\* obs_*: what the call's get_or_create and guard saw; calls, saves: whether
\* the call made a platform or connector call, wrote the row
NewHist ==
    [watermark |-> {}, obs_status |-> "NONE", obs_fresh_watermark |-> FALSE,
     obs_fresh_in_window |-> FALSE, obs_fresh_sync_after |-> FALSE,
     obs_fresh_log |-> FALSE, obs_recent_success |-> FALSE,
     obs_dangling |-> FALSE, calls |-> FALSE, saves |-> FALSE]

\* a timestamp less than 30 minutes old at time t
Fresh(timestamp, t) == \E s \in timestamp : s > t - FreshnessMinutes

\* the freshness window that tasks.py:81-82 and base.py:384-388 leave for a
\* scheduled call: the watermark of a call without connection string counts
\* as 20 minutes older than it is
EffectiveWindow(conn_string) ==
    IF conn_string = "" THEN FreshnessMinutes - QbdExtraMinutes ELSE FreshnessMinutes

\* the run moves on or ends; its objects are gone when it has ended
Goto(w, to) ==
    /\ pc' = [pc EXCEPT ![w] = to]
    /\ self' = [self EXCEPT ![w] = IF to \in BodyPcs THEN @ ELSE NewSelf]
    /\ hist' = [hist EXCEPT ![w] = IF to \in BodyPcs THEN @ ELSE NewHist]

\* tasks.py:69-110: read the watermark, build the connection and the module
trigger_import_via_schedule(w) ==
    /\ pc[w] = "idle"
    /\ \A v \in Workers : v < w => pc[v] # "idle"
    /\ IF constructor_accepts(source_field)
       THEN /\ self' = [self EXCEPT ![w].sync_after =
                            adjusted_sync_after(sdk_connection_string, read_sync_after)]
            /\ hist' = [hist EXCEPT ![w].watermark = read_sync_after]
            /\ pc' = [pc EXCEPT ![w] = "check"]
       ELSE /\ pc' = [pc EXCEPT ![w] = "propagated"]
            /\ UNCHANGED <<self, hist>>
    /\ UNCHANGED <<elsewhere, config, now, import_logs, updated_at, last_writer, last_success_at>>

\* a crashed run has left the log IN_PROGRESS, nothing has touched the row
\* for longer than the staleness window and no call is running (read by no
\* action)
DanglingStale ==
    /\ import_logs # {} /\ TheLog.status = "IN_PROGRESS"
    /\ updated_at + FreshnessMinutes < now
    /\ \A v \in Workers : pc[v] \notin ({"start"} \cup BodyPcs)
    /\ \E v \in Workers : pc[v] = "crashed" /\ last_writer = v

\* base.py:374-389: get_or_create, then the guard
check_import_log(w) ==
    /\ pc[w] = "check"
    /\ LET is_created == import_logs = {}
           import_log == IF is_created THEN NewImportLog("IN_PROGRESS") ELSE TheLog
           skip == skip_import(app_name, import_log.status, is_created,
                               self[w].sync_after, now)
       IN /\ import_logs' = {import_log}
          /\ updated_at' = IF is_created THEN now ELSE updated_at
          /\ last_writer' = IF is_created THEN w ELSE last_writer
          /\ self' = [self EXCEPT ![w] =
                          IF skip THEN NewSelf
                          ELSE [@ EXCEPT !.import_log = import_log,
                                         !.is_created = is_created]]
          /\ hist' = [hist EXCEPT
                 ![w].obs_status = IF is_created THEN "CREATED" ELSE import_log.status,
                 ![w].obs_fresh_watermark = Fresh(hist[w].watermark, now),
                 ![w].obs_fresh_in_window =
                     \E s \in hist[w].watermark :
                         s > now - EffectiveWindow(sdk_connection_string),
                 ![w].obs_fresh_sync_after = Fresh(self[w].sync_after, now),
                 ![w].obs_fresh_log = Fresh(import_log.last_successful_run_at, now),
                 ![w].obs_recent_success = Fresh(last_success_at, now),
                 ![w].obs_dangling = DanglingStale,
                 ![w].watermark = {},
                 ![w].saves = is_created]
          /\ pc' = [pc EXCEPT ![w] = IF skip THEN "skipped" ELSE "start"]
    /\ UNCHANGED <<elsewhere, config, now, last_success_at>>

\* the start of a run that keeps the number of batches of the run before
start_import_log_keeping_total(import_log) ==
    [import_log EXCEPT !.status = "IN_PROGRESS",
                       !.processed_batches_count = 0]

\* the start of a run that keeps the progress of the run before
start_import_log_keeping_processed(import_log) ==
    [import_log EXCEPT !.status = "IN_PROGRESS",
                       !.total_batches_count = 0]

\* base.py:393-395
start_import_log(import_log) ==
    [import_log EXCEPT !.status = "IN_PROGRESS",
                       !.processed_batches_count = 0,
                       !.total_batches_count = 0]

\* base.py:393-396: reset the counters and persist IN_PROGRESS
start_import(w) ==
    /\ pc[w] = "start"
    /\ LET import_log == start_import_log(self[w].import_log)
       IN /\ save(w, import_log)
          /\ self' = [self EXCEPT ![w].import_log = import_log]
    /\ hist' = [hist EXCEPT ![w].saves = TRUE]
    /\ pc' = [pc EXCEPT ![w] = "sync"]
    /\ UNCHANGED <<elsewhere, config, now, last_success_at>>

\* base.py:169-174, 210-235 and 237-244: platform sync of the attribute type,
\* then the connector's sync methods when there is a connection
sync_attributes(w) ==
    /\ pc[w] = "sync"
    /\ hist' = [hist EXCEPT ![w].calls = TRUE]
    /\ pc' = [pc EXCEPT ![w] = "count"]
    /\ UNCHANGED <<elsewhere, config, now, import_logs, updated_at, self, last_writer, last_success_at>>

\* base.py:262-268 (categories.py:119-125, merchants.py:107-113,
\* expense_custom_fields.py:172-178): nothing to import
mark_complete_without_batches(import_log, t) ==
    [import_log EXCEPT !.status = "COMPLETE",
                       !.last_successful_run_at = {t},
                       !.error_log = <<>>,
                       !.total_batches_count = 0,
                       !.processed_batches_count = 0]

\* base.py:259-272: count the filtered destination attributes, persist the
\* number of batches
construct_payload_and_import_to_fyle(w) ==
    /\ pc[w] = "count"
    /\ \E count \in DestinationCounts :
         LET import_log ==
                 IF count = 0
                 THEN mark_complete_without_batches(self[w].import_log, now)
                 ELSE [self[w].import_log EXCEPT !.total_batches_count =
                                                 total_batches(source_field, count)]
         IN /\ save(w, import_log)
            /\ self' = [self EXCEPT ![w].import_log = import_log,
                                    ![w].count = count,
                                    ![w].offset = 0]
            /\ pc' = [pc EXCEPT ![w] = IF count = 0 THEN "after_import"
                                                    ELSE "batch"]
            /\ last_success_at' = IF count = 0 THEN {now} ELSE last_success_at
    /\ UNCHANGED <<elsewhere, config, now, hist>>

\* the watermark stamped by every batch, the last or not
update_import_log_post_import_always_stamping(last, import_log, t) ==
    IF last
    THEN [import_log EXCEPT !.last_successful_run_at = {t},
                            !.processed_batches_count = @ + 1,
                            !.status = "COMPLETE",
                            !.error_log = <<>>]
    ELSE [import_log EXCEPT !.last_successful_run_at = {t},
                            !.processed_batches_count = @ + 1]

\* the log advanced by the last batch only
update_import_log_post_import_last_only(last, import_log, t) ==
    IF last
    THEN [import_log EXCEPT !.last_successful_run_at = {t},
                            !.processed_batches_count = @ + 1,
                            !.status = "COMPLETE",
                            !.error_log = <<>>]
    ELSE import_log

\* the log completed by every batch
update_import_log_post_import_every_batch_last(last, import_log, t) ==
    [import_log EXCEPT !.last_successful_run_at = {t},
                       !.processed_batches_count = @ + 1,
                       !.status = "COMPLETE",
                       !.error_log = <<>>]

\* base.py:354-368
update_import_log_post_import(last, import_log, t) ==
    IF last
    THEN [import_log EXCEPT !.last_successful_run_at = {t},
                            !.processed_batches_count = @ + 1,
                            !.status = "COMPLETE",
                            !.error_log = <<>>]
    ELSE [import_log EXCEPT !.processed_batches_count = @ + 1]

\* base.py:277-289 and 335-352: one page is fetched at the generator's
\* offset, its payload built and posted (no call for an empty payload), and
\* the log advanced
post_to_fyle_and_sync(w) ==
    /\ pc[w] = "batch"
    /\ \E fyle_payload_empty \in BOOLEAN :
         LET last == is_last_batch(source_field, self[w].offset, self[w].count)
             import_log == update_import_log_post_import(last, self[w].import_log, now)
         IN /\ save(w, import_log)
            /\ self' = [self EXCEPT ![w].import_log = import_log,
                                    ![w].offset = @ + BatchSize]
            /\ hist' = [hist EXCEPT ![w].calls = @ \/ ~fyle_payload_empty]
            /\ pc' = [pc EXCEPT ![w] = IF last THEN "after_import" ELSE "batch"]
            /\ last_success_at' = IF last THEN {now} ELSE last_success_at
    /\ UNCHANGED <<elsewhere, config, now>>

\* base.py:178-186 (merchants.py:146, expense_custom_fields.py:223-226): the
\* second platform sync, then the mappings of the posted attributes and the
\* resolution of mapping errors in the modules that have them
finish_import(w) ==
    /\ pc[w] = "after_import"
    /\ Goto(w, "done")
    /\ UNCHANGED <<elsewhere, config, now, import_logs, updated_at, last_writer, last_success_at>>

\* apps.mappings.exceptions.handle_import_exceptions_v2, the error-handling
\* wrapper of the body: FATAL for a credential failure, FAILED otherwise,
\* the error recorded and the log persisted
handle_import_exceptions_v2(import_log, error) ==
    [import_log EXCEPT !.status = IF error = "InvalidTokenError" THEN "FATAL"
                                                                 ELSE "FAILED",
                       !.error_log = Append(@, error)]

\* the row an earlier invocation has left behind: its run failed at the post
\* of the second batch (of the only batch, for a module with a single one)
LeftByFailedRun(field) ==
    LET count == (MaxPages - 1) * BatchSize + 1
        started == start_import_log(NewImportLog("IN_PROGRESS"))
        counted == [started EXCEPT !.total_batches_count = total_batches(field, count)]
        posted == IF is_last_batch(field, 0, count)
                  THEN counted
                  ELSE update_import_log_post_import(FALSE, counted, 0)
    IN handle_import_exceptions_v2(posted, "WrongParamsError")

\* the generator has not been created
NoPages ==
    /\ destination_attributes = {}
    /\ active_filter = TRUE
    /\ destination_attributes_count = 0
    /\ generator_offset = 0
    /\ pages = <<>>
    /\ gpc = "idle"
    /\ destination_changed = FALSE
    /\ counted_attributes = {}

\* the function is not applied
NoDedup ==
    /\ attribute_list = <<>>
    /\ prepend_code = TRUE
    /\ prepend_code_to_name = FALSE
    /\ unique_attributes = <<>>
    /\ unique_again = <<>>
    /\ dpc = "idle"

\* no module's payload constructor is called on its own
NoReconcile ==
    /\ reconciled_field = "PROJECT"
    /\ reconciled_auto_sync = FALSE
    /\ paginated_attributes = <<>>
    /\ expense_attribute_rows = {}
    /\ existing_fyle_attributes_map = <<>>
    /\ fyle_payload = <<>>
    /\ rpc = "idle"

\* no destination attribute is put to the filter of a category import
NoFilter ==
    /\ destination_sync_methods = {}
    /\ filter_sync_after = {}
    /\ candidate = [display_name |-> "Account", active |-> TRUE, updated_at |-> 0]
    /\ candidate_selected = FALSE
    /\ fpc = "idle"

\* no body is executed on its own
NoBody ==
    /\ body_field = "PROJECT"
    /\ body_is_3d_mapping = FALSE
    /\ body_sdk_connection = "None"
    /\ body_count = 0
    /\ body_import_log = NewImportLog("NONE")
    /\ body_row = NewImportLog("NONE")
    /\ statement = 0
    /\ bpc = "idle"
    /\ body_offset = 0
    /\ page_has_rows = FALSE
    /\ payload_is_empty = TRUE
    /\ posted_destination_attributes = "None"
    /\ trace = <<>>

Callers == {1, 2, 3}

\* no call for the row is followed on its own
NoRace ==
    /\ import_log_table = {}
    /\ caller_kind = [c \in Callers |-> "get_or_create"]
    /\ cpc = [c \in Callers |-> "idle"]
    /\ row_created = [c \in Callers |-> FALSE]
    /\ integrity_error = [c \in Callers |-> FALSE]

\* dataclasses.py:28-39, a TaskSetting that asks for nothing
NoTaskSetting ==
    [custom_properties |-> FALSE, import_categories |-> FALSE, import_tax |-> FALSE,
     import_vendors_as_merchants |-> FALSE, import_items |-> FALSE,
     mapping_settings |-> <<>>, import_dependent_fields |-> FALSE]

\* no chain is built
NoChain ==
    /\ task_settings = NoTaskSetting
    /\ chain = <<>>
    /\ chain_position = 0
    /\ kpc = "idle"

NoSide == NoBody /\ NoRace /\ NoChain

NoCalls == NoReconcile /\ NoFilter /\ NoSide

\* no payload is constructed
NoPayload ==
    /\ module_kind = "PROJECT"
    /\ is_auto_sync_enabled = FALSE
    /\ destination_rows = <<>>
    /\ platform_attributes = {}
    /\ page = <<>>
    /\ payload_first = <<>>
    /\ payload_second = <<>>
    /\ ppc = "idle"

\* before the first webhook
NoWebhook ==
    [action |-> "NONE", id |-> "s1", value |-> "a", is_enabled |-> TRUE,
     has_accepted_invite |-> TRUE, type |-> "SELECT", options |-> {}]

\* no webhook is delivered to the workspace
NoWebhooks ==
    /\ resource = "PROJECT"
    /\ cache_keys_agree = TRUE
    /\ cache = [member \in {"IMPORT_PROGRESS", "IMPORT_LOG_IN_PROGRESS"} |-> "None"]
    /\ wpc = "idle"
    /\ webhook_body = NoWebhook
    /\ import_in_progress = FALSE
    /\ signal_pending = FALSE
    /\ expense_attributes = {}

\* no invocation is running; the pair has never been imported, or an earlier
\* run has failed
Init ==
    /\ app_name \in AppNames
    /\ source_field \in SourceFields
    /\ sdk_connection_string \in SdkConnectionStrings
    /\ now = 0
    /\ import_logs \in {{}, {LeftByFailedRun(source_field)}}
    /\ updated_at = 0
    /\ pc = [w \in Workers |-> "idle"]
    /\ self = [w \in Workers |-> NewSelf]
    /\ hist = [w \in Workers |-> NewHist]
    /\ last_writer = 0
    /\ last_success_at = {}
    /\ NoWebhooks
    /\ NoPages
    /\ NoDedup
    /\ NoPayload
    /\ NoCalls

\* an exception raised by a step of the body (a platform or connector call,
\* a query): the decorator catches it
raise_in_body(w) ==
    /\ pc[w] \in BodyPcs
    /\ \E error \in ErrorKinds :
         IF is_decorated(source_field)
         THEN /\ save(w, handle_import_exceptions_v2(self[w].import_log, error))
              /\ Goto(w, "handled")
         ELSE /\ Goto(w, "propagated")
              /\ UNCHANGED <<import_logs, updated_at, last_writer>>
    /\ UNCHANGED <<elsewhere, config, now, last_success_at>>

\* the worker process dies between two steps of the call
crash(w) ==
    /\ pc[w] \in {"start"} \cup BodyPcs
    /\ Goto(w, "crashed")
    /\ UNCHANGED <<elsewhere, config, now, import_logs, updated_at, last_writer, last_success_at>>

\* models.py:36-48, called by the host application
update_or_create_in_progress_import_log ==
    /\ import_logs' = IF import_logs = {}
                      THEN {NewImportLog("IN_PROGRESS")}
                      ELSE {[TheLog EXCEPT !.status = "IN_PROGRESS"]}
    /\ updated_at' = now
    /\ last_writer' = 0
    /\ UNCHANGED <<elsewhere, config, now, pc, self, hist, last_success_at>>

tick ==
    /\ now + TickMinutes <= MaxTime
    /\ now' = now + TickMinutes
    /\ UNCHANGED <<elsewhere, config, import_logs, updated_at, pc, self, hist, last_writer, last_success_at>>

Next ==
    \/ \E w \in Workers : trigger_import_via_schedule(w)
    \/ \E w \in Workers : check_import_log(w)
    \/ \E w \in Workers : start_import(w)
    \/ \E w \in Workers : sync_attributes(w)
    \/ \E w \in Workers : construct_payload_and_import_to_fyle(w)
    \/ \E w \in Workers : post_to_fyle_and_sync(w)
    \/ \E w \in Workers : finish_import(w)
    \/ \E w \in Workers : raise_in_body(w)
    \/ \E w \in Workers : crash(w)
    \/ update_or_create_in_progress_import_log
    \/ tick

Spec == Init /\ [][Next]_vars

\* ------------------------------------------------------------ webhook path
\* enums.py:4-8
WebhookActions == {"CREATED", "UPDATED", "DELETED"}

\* webhook_attributes.py:14-76, the keys of ATTRIBUTE_FIELD_MAPPING
SupportedResources ==
    {"CATEGORY", "PROJECT", "COST_CENTER", "EMPLOYEE", "CORPORATE_CARD",
     "TAX_GROUP", "EXPENSE_FIELD", "DEPENDENT_FIELD"}

\* resource types without a key in ATTRIBUTE_FIELD_MAPPING: one stands for
\* the members of FyleAttributeTypeEnum that have none, one for the strings
\* that are no member of the enum
UnsupportedResources == {"OTHER_MEMBER", "NO_MEMBER"}

\* webhook_attributes.py:259: the values FyleAttributeTypeEnum(...) accepts;
\* for any other value the call of an Enum class raises ValueError
FyleAttributeTypeEnum == SupportedResources \cup {"OTHER_MEMBER"}

\* ids and composed values (webhook_attributes.py:105-127) of the resources
\* the webhooks are about
SourceIds == {"s1", "s2"}
AttributeValues == {"a", "b"}

\* models.py:7-12
ImportLogStatuses == {"IN_PROGRESS", "COMPLETE", "FAILED", "FATAL"}

\* signals.py:23 formats CacheKeyEnum.IMPORT_PROGRESS, webhook_attributes.py:238
\* formats CacheKeyEnum.IMPORT_LOG_IN_PROGRESS, for the same pair
cache_key(member) ==
    IF cache_keys_agree THEN "IMPORT_LOG_IN_PROGRESS" ELSE member

\* webhook_attributes.py:150; the options of an expense field are stored
\* under the field's name (webhook_attributes.py:166)
stored_attribute_type(res) ==
    IF res = "EXPENSE_FIELD" THEN "FIELD_NAME" ELSE res

\* webhook_attributes.py:258-260: the bodies delivered for a resource type
WebhookBodies(res) ==
    [action : WebhookActions,
     id : SourceIds,
     value : IF res = "EXPENSE_FIELD" THEN {"a"} ELSE AttributeValues,
     is_enabled : BOOLEAN,
     has_accepted_invite : IF res = "EMPLOYEE" THEN BOOLEAN ELSE {TRUE},
     type : IF res = "EXPENSE_FIELD" THEN {"SELECT", "TEXT"} ELSE {"SELECT"},
     options : IF res = "EXPENSE_FIELD" THEN SUBSET AttributeValues ELSE {{}}]

\* webhook_attributes.py:129-130 (a corporate card has no active field)
active_of(res, data) ==
    IF res = "CORPORATE_CARD" THEN TRUE ELSE data.is_enabled

\* the new options appended and no stored option disabled
process_expense_field_appending_only(attrs, data) ==
    IF data.type # "SELECT"
    THEN attrs
    ELSE LET attribute_type == stored_attribute_type("EXPENSE_FIELD")
             existing_values == {a.value : a \in {b \in attrs :
                                                     b.attribute_type = attribute_type}}
         IN attrs \cup {[attribute_type |-> attribute_type, value |-> option,
                         source_id |-> data.id,
                         active |-> active_of("EXPENSE_FIELD", data)] :
                            option \in data.options \ existing_values}

\* webhook_attributes.py:153-195
process_expense_field(attrs, data) ==
    IF data.type # "SELECT"
    THEN attrs
    ELSE LET attribute_type == stored_attribute_type("EXPENSE_FIELD")
             existing_attributes == {a \in attrs : a.attribute_type = attribute_type}
             existing_values == {a.value : a \in existing_attributes}
             new_options == data.options \ existing_values
             attributes_to_create ==
                 {[attribute_type |-> attribute_type, value |-> option,
                   source_id |-> data.id,
                   active |-> active_of("EXPENSE_FIELD", data)] : option \in new_options}
             attributes_to_disable == existing_values \ data.options
         IN {IF /\ a.attribute_type = attribute_type
                /\ a.active
                /\ a.value \in attributes_to_disable
             THEN [a EXCEPT !.active = FALSE]
             ELSE a : a \in attrs} \cup attributes_to_create

\* no row disabled
disable_expense_attribute_of_none(attrs, attribute_type, source_id) == attrs

\* webhook_attributes.py:215-221
disable_expense_attribute(attrs, attribute_type, source_id) ==
    {IF /\ a.attribute_type = attribute_type
        /\ a.active
        /\ a.source_id = source_id
     THEN [a EXCEPT !.active = FALSE]
     ELSE a : a \in attrs}

\* webhook_attributes.py:224-228: the row of (workspace, attribute type,
\* value) is created or updated
create_or_update_expense_attribute(attrs, attribute) ==
    {a \in attrs : ~(/\ a.attribute_type = attribute.attribute_type
                     /\ a.value = attribute.value)} \cup {attribute}

\* webhook_attributes.py:197-229
process_expense_attribute(attrs, res, data) ==
    IF res = "EMPLOYEE" /\ ~data.has_accepted_invite
    THEN attrs
    ELSE IF res = "EXPENSE_FIELD"
    THEN process_expense_field(attrs, data)
    ELSE IF data.action = "DELETED"
    THEN disable_expense_attribute(attrs, stored_attribute_type(res), data.id)
    ELSE create_or_update_expense_attribute(
             attrs,
             [attribute_type |-> stored_attribute_type(res), value |-> data.value,
              source_id |-> data.id, active |-> active_of(res, data)])

\* webhook_attributes.py:252-266 and 238-241: a webhook arrives, the handler
\* reads the cache entry
process_webhook ==
    /\ wpc \in {"idle", "skipped", "returned"}
    /\ resource \in SupportedResources
    /\ \E body \in WebhookBodies(resource) :
         webhook_body' = body
    /\ LET cached_result == cache[cache_key("IMPORT_LOG_IN_PROGRESS")]
       IN IF cached_result # "None"
          THEN /\ import_in_progress' = (cached_result = "True")
               /\ wpc' = "decide"
          ELSE /\ import_in_progress' = FALSE
               /\ wpc' = "query"
    /\ UNCHANGED <<import_calls, import_logs, resource, cache_keys_agree, cache,
                   signal_pending, expense_attributes>>

\* webhook_attributes.py:258-264: a webhook of a resource type without a key
\* in ATTRIBUTE_FIELD_MAPPING arrives: the Enum call raises, or the handler
\* logs an error and returns
process_webhook_of_unsupported_resource ==
    /\ wpc \in {"idle", "raised", "rejected"}
    /\ resource \notin SupportedResources
    /\ \E body \in WebhookBodies(resource) :
         webhook_body' = [NoWebhook EXCEPT !.action = body.action]
    /\ wpc' = IF resource \in FyleAttributeTypeEnum THEN "rejected" ELSE "raised"
    /\ UNCHANGED <<import_calls, import_logs, resource, cache_keys_agree, cache,
                   import_in_progress, signal_pending, expense_attributes>>

\* the lookup done as a claim of the log: the row is marked IN_PROGRESS
is_import_in_progress_query_claiming_the_log ==
    /\ wpc = "query"
    /\ import_in_progress' = IF import_logs = {} THEN FALSE
                             ELSE TheLog.status = "IN_PROGRESS"
    /\ import_logs' = IF import_logs = {} THEN {NewImportLog("IN_PROGRESS")}
                      ELSE {[TheLog EXCEPT !.status = "IN_PROGRESS"]}
    /\ wpc' = "set"
    /\ UNCHANGED <<import_calls, resource, cache_keys_agree, cache,
                   webhook_body, signal_pending, expense_attributes>>

\* webhook_attributes.py:243-247
is_import_in_progress_query ==
    /\ wpc = "query"
    /\ import_in_progress' = IF import_logs = {} THEN FALSE
                             ELSE TheLog.status = "IN_PROGRESS"
    /\ wpc' = "set"
    /\ UNCHANGED <<import_calls, import_logs, resource, cache_keys_agree, cache,
                   webhook_body, signal_pending, expense_attributes>>

\* webhook_attributes.py:249-250
is_import_in_progress_set ==
    /\ wpc = "set"
    /\ cache' = [cache EXCEPT ![cache_key("IMPORT_LOG_IN_PROGRESS")] =
                     IF import_in_progress THEN "True" ELSE "False"]
    /\ wpc' = "decide"
    /\ UNCHANGED <<import_calls, import_logs, resource, cache_keys_agree,
                   webhook_body, import_in_progress, signal_pending,
                   expense_attributes>>

\* webhook_attributes.py:266-271
process_webhook_decided ==
    /\ wpc = "decide"
    /\ IF import_in_progress /\ webhook_body.action # "DELETED"
       THEN /\ wpc' = "skipped"
            /\ UNCHANGED expense_attributes
       ELSE /\ wpc' = "returned"
            /\ expense_attributes' =
                   process_expense_attribute(expense_attributes, resource, webhook_body)
    /\ import_in_progress' = FALSE
    /\ webhook_body' = [NoWebhook EXCEPT
                            !.action = webhook_body.action,
                            !.id = webhook_body.id,
                            !.has_accepted_invite = webhook_body.has_accepted_invite]
    /\ UNCHANGED <<import_calls, import_logs, resource, cache_keys_agree, cache,
                   signal_pending>>

\* webhook_attributes.py:249: an entry lives 900 seconds
cache_expires ==
    /\ \E key \in DOMAIN cache :
         /\ cache[key] # "None"
         /\ cache' = [cache EXCEPT ![key] = "None"]
    /\ UNCHANGED <<import_calls, import_logs, resource, cache_keys_agree, wpc,
                   webhook_body, import_in_progress, signal_pending,
                   expense_attributes>>

\* ImportLog.save() of an import run or of the host (base.py:366-368, 392-398,
\* models.py:36-48): the row is written, then post_save is sent; the receiver
\* of signals.py:22 does nothing for IN_PROGRESS
ImportLog_save ==
    /\ ~signal_pending
    /\ \E status \in ImportLogStatuses :
         /\ import_logs' = IF import_logs = {}
                           THEN {NewImportLog(status)}
                           ELSE {[TheLog EXCEPT !.status = status]}
         /\ signal_pending' = (status # "IN_PROGRESS")
    /\ UNCHANGED <<import_calls, resource, cache_keys_agree, cache, wpc,
                   webhook_body, import_in_progress, expense_attributes>>

\* signals.py:9-24
invalidate_import_progress_cache ==
    /\ signal_pending
    /\ cache' = IF TheLog.status # "IN_PROGRESS"
                THEN [cache EXCEPT ![cache_key("IMPORT_PROGRESS")] = "None"]
                ELSE cache
    /\ signal_pending' = FALSE
    /\ UNCHANGED <<import_calls, import_logs, resource, cache_keys_agree, wpc,
                   webhook_body, import_in_progress, expense_attributes>>

\* no import has run for the pair and no webhook has arrived
WebhookInit ==
    /\ app_name = "QUICKBOOKS"
    /\ source_field = "PROJECT"
    /\ sdk_connection_string = ""
    /\ now = 0
    /\ import_logs = {}
    /\ updated_at = 0
    /\ pc = [w \in Workers |-> "idle"]
    /\ self = [w \in Workers |-> NewSelf]
    /\ hist = [w \in Workers |-> NewHist]
    /\ last_writer = 0
    /\ last_success_at = {}
    /\ resource \in SupportedResources \cup UnsupportedResources
    /\ cache_keys_agree \in BOOLEAN
    /\ cache = [member \in {"IMPORT_PROGRESS", "IMPORT_LOG_IN_PROGRESS"} |-> "None"]
    /\ wpc = "idle"
    /\ webhook_body = NoWebhook
    /\ import_in_progress = FALSE
    /\ signal_pending = FALSE
    /\ expense_attributes = {}
    /\ NoPages
    /\ NoDedup
    /\ NoPayload
    /\ NoCalls

WebhookNext ==
    \/ process_webhook
    \/ process_webhook_of_unsupported_resource
    \/ is_import_in_progress_query
    \/ is_import_in_progress_set
    \/ process_webhook_decided
    \/ cache_expires
    \/ ImportLog_save
    \/ invalidate_import_progress_cache

WebhookSpec == WebhookInit /\ [][WebhookNext]_vars

\* ------------------------------------------------------------ paginator
\* the rows of the pair are few, and a page holds PageLimit of them where
\* base.py:301 has 200
MaxRecords == 3
PageLimit == 2

DestinationIds == 1..MaxRecords
\* the values, in the order of the database's collation
Collation == <<"a", "b">>
DestinationValues == {Collation[i] : i \in DOMAIN Collation}
DestinationAttributes == [id : DestinationIds, value : DestinationValues, active : BOOLEAN]

\* tables: at most one row per id
DestinationTables ==
    {t \in SUBSET DestinationAttributes :
        \A a, b \in t : a.id = b.id => a = b}

\* base.py:113-140, as far as it selects rows of the pair
construct_attributes_filter(attrs, active_only) ==
    {a \in attrs : active_only => a.active}

\* ORDER BY value, id
comes_before(a, b) ==
    LET rank(v) == CHOOSE i \in DOMAIN Collation : Collation[i] = v
    IN \/ rank(a.value) < rank(b.value)
       \/ a.value = b.value /\ a.id < b.id

RECURSIVE order_by(_)
\* base.py:303: order_by('value', 'id')
order_by(attrs) ==
    IF attrs = {}
    THEN <<>>
    ELSE LET first == CHOOSE a \in attrs : \A b \in attrs \ {a} : comes_before(a, b)
         IN <<first>> \o order_by(attrs \ {first})

\* the slice one row longer
paginated_destination_attributes_one_more(attrs, active_only, offset) ==
    LET ordered == order_by(construct_attributes_filter(attrs, active_only))
        limit == offset + PageLimit + 1
    IN SubSeq(ordered, offset + 1, IF limit < Len(ordered) THEN limit ELSE Len(ordered))

\* base.py:302-303: the query of one page, [offset:limit]
paginated_destination_attributes(attrs, active_only, offset) ==
    LET ordered == order_by(construct_attributes_filter(attrs, active_only))
        limit == offset + PageLimit
    IN SubSeq(ordered, offset + 1, IF limit < Len(ordered) THEN limit ELSE Len(ordered))

\* base.py:259-272: the count of the filtered rows; no generator without rows
count_destination_attributes ==
    /\ gpc = "count"
    /\ destination_attributes_count' =
           Cardinality(construct_attributes_filter(destination_attributes, active_filter))
    /\ counted_attributes' =
           construct_attributes_filter(destination_attributes, active_filter)
    /\ gpc' = IF destination_attributes_count' = 0 THEN "done" ELSE "pages"
    /\ UNCHANGED <<import_vars, webhook_vars, dedup_vars, payload_vars, call_vars,
                   destination_attributes, active_filter,
                   generator_offset, pages, destination_changed>>

\* base.py:293-307: one turn of the generator's loop
get_destination_attributes_generator ==
    /\ gpc = "pages"
    /\ pages' = Append(pages, paginated_destination_attributes(
                                  destination_attributes, active_filter, generator_offset))
    /\ generator_offset' = generator_offset + PageLimit
    /\ gpc' = IF generator_offset' >= destination_attributes_count THEN "done" ELSE "pages"
    /\ UNCHANGED <<import_vars, webhook_vars, dedup_vars, payload_vars, call_vars,
                   destination_attributes, active_filter,
                   destination_attributes_count, destination_changed,
                   counted_attributes>>

\* base.py:174 (sync_destination_attributes) of another call, or the host's
\* own sync: a row of the pair is created, updated or removed while the
\* generator is between two pages
sync_destination_attributes ==
    /\ gpc = "pages"
    /\ ~destination_changed
    /\ \E id \in DestinationIds :
         \E rows \in {{}} \cup {{a} : a \in {b \in DestinationAttributes : b.id = id}} :
             /\ destination_attributes' =
                    {a \in destination_attributes : a.id # id} \cup rows
             /\ destination_attributes' # destination_attributes
    /\ destination_changed' = TRUE
    /\ UNCHANGED <<import_vars, webhook_vars, dedup_vars, payload_vars, call_vars,
                   active_filter,
                   destination_attributes_count, generator_offset, pages, gpc,
                   counted_attributes>>

\* the import state and the webhook state of a workspace nothing happens in
NoImports ==
    /\ app_name = "QUICKBOOKS"
    /\ source_field = "PROJECT"
    /\ sdk_connection_string = ""
    /\ now = 0
    /\ import_logs = {}
    /\ updated_at = 0
    /\ pc = [w \in Workers |-> "idle"]
    /\ self = [w \in Workers |-> NewSelf]
    /\ hist = [w \in Workers |-> NewHist]
    /\ last_writer = 0
    /\ last_success_at = {}

\* a run is about to count the rows of its filter
PagesInit ==
    /\ NoImports
    /\ NoWebhooks
    /\ NoDedup
    /\ NoPayload
    /\ NoCalls
    /\ destination_attributes \in DestinationTables
    /\ active_filter \in BOOLEAN
    /\ destination_attributes_count = 0
    /\ generator_offset = 0
    /\ pages = <<>>
    /\ gpc = "count"
    /\ destination_changed = FALSE
    /\ counted_attributes = {}

PagesNext ==
    \/ count_destination_attributes
    \/ get_destination_attributes_generator
    \/ sync_destination_attributes

PagesSpec == PagesInit /\ [][PagesNext]_vars

\* ------------------------------------------------------------ duplicates
\* a string is a sequence of characters; ": " is what "{}: {}" puts between
\* the code and the value (base.py:110)
MaxLen == 3
\* mapping settings of one TaskSetting
MaxSettings == 2
NameValues == {<<"a">>, <<"A">>, <<"b">>, <<"a", ": ", "a">>}
\* an attribute has no code (None or ''), or it has one
NameCodes == {<<>>, <<"a">>}

\* the string as it is
lower_keeping_case(string) == string

\* str.lower() (base.py:156, 159)
lower(string) ==
    [i \in DOMAIN string |-> IF string[i] = "A" THEN "a" ELSE string[i]]

\* the lists of at most MaxLen attributes; the id tells the rows apart
AttributeLists ==
    UNION {{[i \in 1..n |-> [id |-> i, value |-> values[i], code |-> codes[i]]] :
                values \in [1..n -> NameValues], codes \in [1..n -> NameCodes]} :
           n \in 0..MaxLen}

\* the code prepended whatever the flag
get_code_prepended_name_whatever_the_flag(prepend_code_in_name, value, code) ==
    IF code # <<>>
    THEN code \o <<": ">> \o value
    ELSE value

\* base.py:105-111
get_code_prepended_name(prepend_code_in_name, value, code) ==
    IF prepend_code_in_name /\ code # <<>>
    THEN code \o <<": ">> \o value
    ELSE value

\* base.py:152-154
attribute_value_of(destination_attribute, with_code, code_to_name) ==
    IF with_code
    THEN get_code_prepended_name(code_to_name, destination_attribute.value,
                                 destination_attribute.code)
    ELSE destination_attribute.value

RECURSIVE remove_duplicate_attributes_loop(_, _, _, _, _)
\* base.py:151-159, the loop
remove_duplicate_attributes_loop(rest, with_code, code_to_name, uniques, attribute_values) ==
    IF rest = <<>>
    THEN uniques
    ELSE LET destination_attribute == Head(rest)
             attribute_value ==
                 attribute_value_of(destination_attribute, with_code, code_to_name)
         IN IF lower(attribute_value) \notin attribute_values
            THEN remove_duplicate_attributes_loop(
                     Tail(rest), with_code, code_to_name,
                     Append(uniques,
                            [destination_attribute EXCEPT !.value = attribute_value]),
                     attribute_values \cup {lower(attribute_value)})
            ELSE remove_duplicate_attributes_loop(
                     Tail(rest), with_code, code_to_name, uniques, attribute_values)

\* base.py:142-161
remove_duplicate_attributes(attrs, with_code, code_to_name) ==
    remove_duplicate_attributes_loop(attrs, with_code, code_to_name, <<>>, {})

\* the function applied to a list
apply_remove_duplicate_attributes ==
    /\ dpc = "input"
    /\ unique_attributes' =
           remove_duplicate_attributes(attribute_list, prepend_code, prepend_code_to_name)
    /\ dpc' = "once"
    /\ UNCHANGED <<import_vars, webhook_vars, paginator_vars, payload_vars, call_vars,
                   attribute_list,
                   prepend_code, prepend_code_to_name, unique_again>>

\* the function applied to what it returned
apply_remove_duplicate_attributes_again ==
    /\ dpc = "once"
    /\ unique_again' =
           remove_duplicate_attributes(unique_attributes, prepend_code,
                                       prepend_code_to_name)
    /\ dpc' = "twice"
    /\ UNCHANGED <<import_vars, webhook_vars, paginator_vars, payload_vars, call_vars,
                   attribute_list,
                   prepend_code, prepend_code_to_name, unique_attributes>>

\* every list and every setting of the two flags
DedupInit ==
    /\ NoImports
    /\ NoWebhooks
    /\ NoPages
    /\ NoPayload
    /\ NoCalls
    /\ attribute_list \in AttributeLists
    /\ prepend_code \in BOOLEAN
    /\ prepend_code_to_name \in BOOLEAN
    /\ unique_attributes = <<>>
    /\ unique_again = <<>>
    /\ dpc = "input"

DedupNext ==
    \/ apply_remove_duplicate_attributes
    \/ apply_remove_duplicate_attributes_again

DedupSpec == DedupInit /\ [][DedupNext]_vars

\* ------------------------------------------------------------ payloads
\* names of destination and platform attributes
PayloadValues == {<<"a">>, <<"A">>, <<"b">>}
\* updated_at of a destination row, and the watermarks a run is started with:
\* FirstCompletedAt is when the first run completes, every row is older
UpdateTimes == {0, 1}
FirstCompletedAt == 2

DestinationRows == [value : PayloadValues, active : BOOLEAN, updated_at : UpdateTimes]

\* the rows of the pair, in the order of the query; no two share a lower-cased
\* name (the rows have passed remove_duplicate_attributes, base.py:304)
DestinationRowLists ==
    {rows \in UNION {[1..n -> DestinationRows] : n \in 0..2} :
        \A i, j \in DOMAIN rows : i # j => lower(rows[i].value) # lower(rows[j].value)}

\* ExpenseAttribute rows: at most one per value
PlatformTables ==
    {t \in SUBSET [value : PayloadValues, active : BOOLEAN] :
        \A a, b \in t : a.value = b.value => a = b}

\* the filter without updated_at >= sync_after
filters_of_without_watermark(kind, sync_after, auto_sync) ==
    [active |-> IF kind = "CATEGORY"
                THEN sync_after = {}
                ELSE sync_after = {} \/ ~auto_sync,
     updated_at__gte |-> {}]

\* base.py:113-140 and categories.py:68-80: whether the filter of the
\* destination rows has active = True and updated_at >= sync_after
filters_of(kind, sync_after, auto_sync) ==
    [active |-> IF kind = "CATEGORY"
                THEN sync_after = {}
                ELSE sync_after = {} \/ ~auto_sync,
     updated_at__gte |-> IF kind \in {"MERCHANT", "CUSTOM_FIELD"} THEN {} ELSE sync_after]

\* the rows of a query that always has active = True
selected_rows_active_only(rows, filters) ==
    SelectSeq(rows, LAMBDA a : /\ a.active
                               /\ \A s \in filters.updated_at__gte : a.updated_at >= s)

\* the rows a run selects (base.py:259, 303; merchants.py:118;
\* expense_custom_fields.py:184)
selected_rows(rows, filters) ==
    SelectSeq(rows, LAMBDA a : /\ filters.active => a.active
                               /\ \A s \in filters.updated_at__gte : a.updated_at >= s)

\* base.py:323-333 (any casing of a value of the page) and categories.py:167-176
\* (the value as it is in the page): the lower-cased names that exist
get_existing_fyle_attributes(kind, values, platform) ==
    IF kind = "CATEGORY"
    THEN {lower(p.value) : p \in {q \in platform : q.value \in values}}
    ELSE {lower(p.value) : p \in {q \in platform :
                                     lower(q.value) \in {lower(v) : v \in values}}}

\* A nullable boolean (DestinationAttribute.active) is {TRUE}, {FALSE} or {}
\* (None); `if x` holds for {TRUE} only, `not x` for {FALSE} and {}.
\* the hundredths with the digits after them cut off
round_2_truncated(tax_rate) == tax_rate \div 10

\* tax_groups.py:51: round(tax_rate / 100, 2), in hundredths. A rate that ends
\* in .5 gives a quotient halfway between two hundredths; the double nearest
\* to it lies above the half for 8.5 (0.08500000000000000611) and below it for
\* 7.5 (0.07499999999999999722), and round() follows the double
round_2(tax_rate) ==
    IF tax_rate % 10 = 5
    THEN (tax_rate \div 10) + (IF tax_rate = 85 THEN 1 ELSE 0)
    ELSE (tax_rate + 5) \div 10

\* the entry among all entries a module can emit
PayloadEntry(attribute) ==
    [name |-> attribute.value, is_enabled |-> attribute.active, id |-> {},
     percentage |-> {}]

\* the entry of one attribute of the page, <<>> if it has none:
\* projects.py:74-97, cost_centers.py:97-132, categories.py:191-204,
\* tax_groups.py:47-56. An entry without id ({}) is a create. The value
\* 'Unspecified' of categories.py:195 is not among the modelled values.
construct_fyle_payload_entry(field, attribute, existing_map, cim, auto_sync) ==
    LET lower_value == lower(attribute.value)
        exists == lower_value \in DOMAIN existing_map
        entry == PayloadEntry(attribute)
        enabled == IF attribute.active = {} THEN {TRUE} ELSE attribute.active
    IN IF field = "TAX_GROUP"
       THEN IF ~exists
            THEN <<[entry EXCEPT !.is_enabled = {TRUE},
                                 !.percentage = {round_2(attribute.tax_rate)}]>>
            ELSE <<>>
       ELSE IF field = "CATEGORY"
       THEN IF ~exists
            THEN <<entry>>
            ELSE IF auto_sync /\ attribute.active # {TRUE}
            THEN <<[entry EXCEPT !.id = {existing_map[lower_value]}]>>
            ELSE <<>>
       ELSE IF field = "PROJECT"
       THEN IF ~exists /\ attribute.active = {TRUE}
            THEN <<[entry EXCEPT !.is_enabled = enabled]>>
            ELSE IF auto_sync /\ attribute.active # {TRUE} /\ exists
            THEN <<[entry EXCEPT !.is_enabled = enabled,
                                 !.id = {existing_map[lower_value]}]>>
            ELSE <<>>
       ELSE LET value_map == ~exists /\ lower_value \in DOMAIN cim
                name == IF value_map THEN cim[lower_value] ELSE attribute.value
                existing_source_id == IF exists THEN {existing_map[lower_value]}
                                      ELSE IF value_map THEN {cim[lower_value]} ELSE {}
                cost_center == [entry EXCEPT !.name = name, !.is_enabled = enabled]
            IN IF existing_source_id = {} /\ attribute.active = {TRUE}
               THEN <<cost_center>>
               ELSE IF auto_sync /\ attribute.active # {TRUE} /\ existing_source_id # {}
               THEN <<[cost_center EXCEPT !.id = existing_source_id]>>
               ELSE <<>>

\* the entry as the runs of this section keep it: their rows have a known
\* active flag, and of an entry they keep the name, whether it is enabled and
\* whether it has an id (an update) or none (a create)
payload_entry(kind, attribute, existing, auto_sync) ==
    LET entries == construct_fyle_payload_entry(
                       kind,
                       [value |-> attribute.value, active |-> {attribute.active},
                        tax_rate |-> 85],
                       [lower_value \in existing |-> lower_value], <<>>, auto_sync)
    IN [i \in DOMAIN entries |->
           [name |-> entries[i].name,
            is_enabled |-> TRUE \in entries[i].is_enabled,
            op |-> IF entries[i].id = {} THEN "create" ELSE "update"]]

RECURSIVE construct_fyle_payload_paged(_, _, _, _)
\* the loop over the page of projects.py:74, cost_centers.py:96,
\* categories.py:192 and tax_groups.py:44
construct_fyle_payload_paged(kind, attributes, existing, auto_sync) ==
    IF attributes = <<>>
    THEN <<>>
    ELSE payload_entry(kind, Head(attributes), existing, auto_sync)
         \o construct_fyle_payload_paged(kind, Tail(attributes), existing, auto_sync)

\* merchants.py:67-75 and expense_custom_fields.py:114-122
combined_values(attributes, platform) ==
    ({attributes[i].value : i \in DOMAIN attributes} \cup {p.value : p \in platform})
    \ ({attributes[i].value : i \in {k \in DOMAIN attributes : ~attributes[k].active}}
       \cup {p.value : p \in {q \in platform : ~q.active}})

\* the orders in which a set of str can be iterated
iteration_orders(values) ==
    {order \in [1..Cardinality(values) -> values] :
        \A i, j \in DOMAIN order : i # j => order[i] # order[j]}

RECURSIVE first_of_each_case(_, _)
\* merchants.py:78-84 and expense_custom_fields.py:125-131
first_of_each_case(order, seen_lower) ==
    IF order = <<>>
    THEN <<>>
    ELSE IF lower(Head(order)) \notin seen_lower
    THEN <<Head(order)>> \o first_of_each_case(Tail(order), seen_lower \cup {lower(Head(order))})
    ELSE first_of_each_case(Tail(order), seen_lower)

\* the payloads a call of a module's payload constructor can return:
\* setup_fyle_payload_creation (base.py:308-321) with the module's
\* construct_fyle_payload, and construct_fyle_expense_custom_field_payload
\* (expense_custom_fields.py:92-156), whose payload is the field with its
\* options
construct_fyle_payload(kind, attributes, platform, auto_sync) ==
    IF kind \in PagedFields
    THEN {construct_fyle_payload_paged(
              kind, attributes,
              get_existing_fyle_attributes(
                  kind, {attributes[i].value : i \in DOMAIN attributes}, platform),
              auto_sync)}
    ELSE LET payloads == {first_of_each_case(order, {}) :
                             order \in iteration_orders(combined_values(attributes, platform))}
         IN IF kind = "MERCHANT"
            THEN payloads
            ELSE {<<[field_name |-> "CUSTOM_FIELD", options |-> options]>> :
                      options \in payloads}

\* fyle_integrations_platform_connector: the names a posted payload carries
posted_names(kind, payload) ==
    IF kind \in PagedFields
    THEN {[value |-> payload[i].name, active |-> payload[i].is_enabled] :
              i \in DOMAIN payload}
    ELSE LET names == IF kind = "MERCHANT" THEN payload ELSE payload[1].options
         IN {[value |-> names[i], active |-> TRUE] : i \in DOMAIN names}

\* base.py:259-289: a run selects its rows and constructs its payload
first_call ==
    /\ ppc = "start"
    /\ \E sync_after \in {{}, {0}} :
         /\ page' = selected_rows(destination_rows,
                                  filters_of(module_kind, sync_after, is_auto_sync_enabled))
         /\ payload_first' \in construct_fyle_payload(
                module_kind, page', platform_attributes, is_auto_sync_enabled)
    /\ ppc' = "constructed"
    /\ UNCHANGED <<import_vars, webhook_vars, paginator_vars, dedup_vars, call_vars,
                   module_kind,
                   is_auto_sync_enabled, destination_rows, platform_attributes,
                   payload_second>>

\* the constructor called again with the same page and the same platform
\* attributes
second_call_same_inputs ==
    /\ ppc = "constructed"
    /\ payload_second' \in construct_fyle_payload(
           module_kind, page, platform_attributes, is_auto_sync_enabled)
    /\ ppc' = "called_twice"
    /\ UNCHANGED <<import_vars, webhook_vars, paginator_vars, dedup_vars, call_vars,
                   module_kind,
                   is_auto_sync_enabled, destination_rows, platform_attributes, page,
                   payload_first>>

\* base.py:335-352 and 178: the payload of the first run is posted and the
\* platform attributes are synced: the run is complete
post_to_fyle_and_sync_expense_attributes ==
    /\ ppc = "constructed"
    /\ constructor_accepts(module_kind)
    /\ LET posted == posted_names(module_kind, payload_first)
       IN platform_attributes' =
              {p \in platform_attributes :
                  \A q \in posted : lower(q.value) # lower(p.value)} \cup posted
    /\ ppc' = "completed"
    /\ UNCHANGED <<import_vars, webhook_vars, paginator_vars, dedup_vars, call_vars,
                   module_kind,
                   is_auto_sync_enabled, destination_rows, page, payload_first,
                   payload_second>>

\* the import run again: its sync_after is the last_successful_run_at of the
\* first run (tasks.py:70), moved back for an empty connection string
\* (tasks.py:81-82)
second_run ==
    /\ ppc = "completed"
    /\ \E sync_after \in {{FirstCompletedAt}, {FirstCompletedAt - 1}} :
         /\ page' = selected_rows(destination_rows,
                                  filters_of(module_kind, sync_after, is_auto_sync_enabled))
         /\ payload_second' \in construct_fyle_payload(
                module_kind, page', platform_attributes, is_auto_sync_enabled)
         /\ ppc' = IF sync_after = {FirstCompletedAt} THEN "ran_twice"
                                                       ELSE "ran_twice_moved_back"
    /\ UNCHANGED <<import_vars, webhook_vars, paginator_vars, dedup_vars, call_vars,
                   module_kind,
                   is_auto_sync_enabled, destination_rows, platform_attributes,
                   payload_first>>

\* every module kind, every small table of the pair and of the platform
PayloadInit ==
    /\ NoImports
    /\ NoWebhooks
    /\ NoPages
    /\ NoDedup
    /\ NoCalls
    /\ module_kind \in SourceFields
    /\ is_auto_sync_enabled \in BOOLEAN
    /\ destination_rows \in DestinationRowLists
    /\ platform_attributes \in PlatformTables
    /\ page = <<>>
    /\ payload_first = <<>>
    /\ payload_second = <<>>
    /\ ppc = "start"

PayloadNext ==
    \/ first_call
    \/ second_call_same_inputs
    \/ post_to_fyle_and_sync_expense_attributes
    \/ second_run

PayloadSpec == PayloadInit /\ [][PayloadNext]_vars

\* --------------------------------------------------------- reconcilers
\* detail['tax_rate'] of a tax code, in tenths of a percent: 7.5, 8.5 and 10
TaxRates == {75, 85, 100}

\* the attributes of a page; only a tax code has a rate that matters
ReconciledAttributes(field) ==
    [value : PayloadValues, active : {{TRUE}, {FALSE}, {}},
     tax_rate : IF field = "TAX_GROUP" THEN TaxRates ELSE {85}]

\* a page of one or two attributes; no two share a lower-cased name (the page
\* has passed remove_duplicate_attributes, base.py:304)
ReconciledPages(field) ==
    {attributes \in UNION {[1..n -> ReconciledAttributes(field)] : n \in 1..2} :
        \A i, j \in DOMAIN attributes :
            i # j => lower(attributes[i].value) # lower(attributes[j].value)}

\* the dicts {row.value.lower(): row.source_id} a comprehension over the rows
\* can build: of the rows of one lower-cased value the last of the unordered
\* query stays. The source_id of a platform row is modelled by the row's value.
lower_value_maps(rows) ==
    LET keys == {lower(q.value) : q \in rows}
    IN {map \in [keys -> {q.value : q \in rows}] : \A k \in keys : lower(map[k]) = k}

\* base.py:323-333 (value_lower__in: any casing of a value of the page) and
\* categories.py:166-175 (value__in: the value as it is in the page)
get_existing_fyle_attributes_maps(field, values, platform) ==
    lower_value_maps(
        IF field = "CATEGORY"
        THEN {q \in platform : q.value \in values}
        ELSE {q \in platform : lower(q.value) \in {lower(v) : v \in values}})

\* cost_centers.py:77-95: the platform rows of the values the map misses
case_insensitive_maps(attributes, existing_map, platform) ==
    LET unmatched_values == {attributes[i].value : i \in {k \in DOMAIN attributes :
                                lower(attributes[k].value) \notin DOMAIN existing_map}}
    IN lower_value_maps({q \in platform :
                            lower(q.value) \in {lower(v) : v \in unmatched_values}})

RECURSIVE construct_fyle_payload_of_page(_, _, _, _, _)
\* the loop over the page (projects.py:74, cost_centers.py:97,
\* categories.py:191, tax_groups.py:47)
construct_fyle_payload_of_page(field, attributes, existing_map, cim, auto_sync) ==
    IF attributes = <<>>
    THEN <<>>
    ELSE construct_fyle_payload_entry(field, Head(attributes), existing_map, cim, auto_sync)
         \o construct_fyle_payload_of_page(field, Tail(attributes), existing_map, cim,
                                           auto_sync)

\* base.py:319-320: the existing platform attributes of the page are looked up
get_existing_fyle_attributes_of_page ==
    /\ rpc = "page"
    /\ existing_fyle_attributes_map' \in get_existing_fyle_attributes_maps(
           reconciled_field,
           {paginated_attributes[i].value : i \in DOMAIN paginated_attributes},
           expense_attribute_rows)
    /\ rpc' = "looked_up"
    /\ UNCHANGED <<import_vars, webhook_vars, paginator_vars, dedup_vars, payload_vars,
                   filter_vars, side_vars, reconciled_field, reconciled_auto_sync,
                   paginated_attributes, expense_attribute_rows, fyle_payload>>

\* base.py:321: the module's construct_fyle_payload
construct_fyle_payload_of_module ==
    /\ rpc = "looked_up"
    /\ \E cim \in case_insensitive_maps(paginated_attributes,
                                        existing_fyle_attributes_map,
                                        expense_attribute_rows) :
         fyle_payload' = construct_fyle_payload_of_page(
             reconciled_field, paginated_attributes, existing_fyle_attributes_map,
             cim, reconciled_auto_sync)
    /\ rpc' = "constructed"
    /\ UNCHANGED <<import_vars, webhook_vars, paginator_vars, dedup_vars, payload_vars,
                   filter_vars, side_vars, reconciled_field, reconciled_auto_sync,
                   paginated_attributes, expense_attribute_rows,
                   existing_fyle_attributes_map>>

\* every paged module, every page and every small table of the platform
ReconcileInit ==
    /\ NoImports
    /\ NoWebhooks
    /\ NoPages
    /\ NoDedup
    /\ NoPayload
    /\ NoFilter
    /\ NoSide
    /\ reconciled_field \in PagedFields
    /\ reconciled_auto_sync \in BOOLEAN
    /\ paginated_attributes \in ReconciledPages(reconciled_field)
    /\ expense_attribute_rows \in PlatformTables
    /\ existing_fyle_attributes_map = <<>>
    /\ fyle_payload = <<>>
    /\ rpc = "page"

ReconcileNext ==
    \/ get_existing_fyle_attributes_of_page
    \/ construct_fyle_payload_of_module

ReconcileSpec == ReconcileInit /\ [][ReconcileNext]_vars

\* ------------------------------------------------- category filter
DisplayNames == {"Account", "Item", "Expense Category"}
SyncMethods == {"accounts", "items", "expense_categories"}
Candidates == [display_name : DisplayNames, active : BOOLEAN, updated_at : UpdateTimes]

\* Q(display_name=...) of a sync method
display_name_of(method) ==
    IF method = "accounts" THEN "Account"
    ELSE IF method = "items" THEN "Item" ELSE "Expense Category"

\* categories.py:68-105 for a destination type other than 'CATEGORY', with no
\* charts_of_accounts: the rows the Q object selects; & is the intersection
\* and | the union of what two Q objects select
Category_construct_attributes_filter(methods, sync_after) ==
    LET Q(display_name) == {row \in Candidates : row.display_name = display_name}
        filters_0 == {row \in Candidates :
                         /\ \A s \in sync_after : row.updated_at >= s
                         /\ sync_after = {} => row.active}
        account_filters == IF "accounts" \in methods
                           THEN filters_0 \cap Q("Account")
                           ELSE filters_0
        filters_1 == IF "items" \in methods
                     THEN IF "accounts" \in methods
                          THEN account_filters \cup (filters_0 \cap Q("Item"))
                          ELSE filters_0 \cap Q("Item")
                     ELSE filters_0
        filters_2 == IF "expense_categories" \in methods
                     THEN IF "accounts" \in methods
                          THEN account_filters \cup (filters_1 \cap Q("Expense Category"))
                          ELSE filters_1 \cap Q("Expense Category")
                     ELSE filters_1
    IN IF "items" \notin methods THEN account_filters ELSE filters_2

\* categories.py:115-116, 160: the query with the filter
DestinationAttribute_objects_filter ==
    /\ fpc = "built"
    /\ candidate_selected' =
           (candidate \in Category_construct_attributes_filter(
                              destination_sync_methods, filter_sync_after))
    /\ fpc' = "queried"
    /\ UNCHANGED <<import_vars, webhook_vars, paginator_vars, dedup_vars, payload_vars,
                   reconcile_vars, side_vars, destination_sync_methods, filter_sync_after,
                   candidate>>

\* every set of sync methods, a first and a later import, every row
FilterInit ==
    /\ NoImports
    /\ NoWebhooks
    /\ NoPages
    /\ NoDedup
    /\ NoPayload
    /\ NoReconcile
    /\ NoSide
    /\ destination_sync_methods \in SUBSET SyncMethods
    /\ filter_sync_after \in {{}, {1}}
    /\ candidate \in Candidates
    /\ candidate_selected = FALSE
    /\ fpc = "built"

FilterNext == DestinationAttribute_objects_filter

FilterSpec == FilterInit /\ [][FilterNext]_vars

\* ------------------------------------------------------------- run body
\* the fields whose module runs the body of base.py and its paginator
BodyFields == {"PROJECT", "CATEGORY", "COST_CENTER"}

\* no connection (tasks.py:71-78), a connection that has the sync method of
\* every destination_sync_method, or one that lacks it
SdkConnections == {"None", "complete", "lacking"}

Event(step, page_number) == [step |-> step, page |-> page_number]

\* the calls in which the mappings precede the second platform sync
import_destination_attribute_to_fyle_mapping_early ==
    <<"sync_expense_attributes", "sync_destination_attributes",
      "construct_payload_and_import_to_fyle", "create_mappings",
      "sync_expense_attributes", "create_ccc_mappings",
      "resolve_expense_attribute_errors">>

\* base.py:172-186: the statements of the body, in the order of the source
import_destination_attribute_to_fyle ==
    <<"sync_expense_attributes", "sync_destination_attributes",
      "construct_payload_and_import_to_fyle", "sync_expense_attributes",
      "create_mappings", "create_ccc_mappings",
      "resolve_expense_attribute_errors">>

\* the function returning before the log when there is nothing to post
post_to_fyle_and_sync_calls_returning_on_empty(fyle_payload_empty) ==
    IF fyle_payload_empty
    THEN <<>>
    ELSE <<"post_bulk", "update_import_log_post_import">>

\* the function posting without advancing the log
post_to_fyle_and_sync_calls_without_update(fyle_payload_empty) ==
    IF fyle_payload_empty THEN <<>> ELSE <<"post_bulk">>

\* base.py:345-352: the calls post_to_fyle_and_sync makes: the post only for
\* a payload that is not empty, the update of the log always
post_to_fyle_and_sync_calls(fyle_payload_empty) ==
    IF fyle_payload_empty
    THEN <<"update_import_log_post_import">>
    ELSE <<"post_bulk", "update_import_log_post_import">>

\* the statement that is next
next_statement ==
    IF bpc = "call" /\ statement \in DOMAIN import_destination_attribute_to_fyle
    THEN import_destination_attribute_to_fyle[statement]
    ELSE "none"

\* the page the generator is at
page_number == body_offset \div BatchSize + 1

\* base.py:172 and 178, 210-235
body_sync_expense_attributes ==
    /\ next_statement = "sync_expense_attributes"
    /\ trace' = Append(trace, Event("sync_expense_attributes", 0))
    /\ statement' = statement + 1
    /\ UNCHANGED <<off_body, body_field, body_is_3d_mapping, body_sdk_connection,
                   body_count, body_import_log, body_row, bpc, body_offset,
                   page_has_rows, payload_is_empty, posted_destination_attributes>>

\* base.py:174, 237-244: nothing without a connection; getattr raises
\* AttributeError for a method the connection lacks, inside the decorated body
body_sync_destination_attributes ==
    /\ next_statement = "sync_destination_attributes"
    /\ IF body_sdk_connection = "lacking"
       THEN /\ body_import_log' =
                   handle_import_exceptions_v2(body_import_log, "AttributeError")
            /\ body_row' = body_import_log'
            /\ trace' = Append(trace, Event("handle_import_exceptions_v2", 0))
            /\ bpc' = "handled"
            /\ UNCHANGED statement
       ELSE /\ trace' = IF body_sdk_connection = "None"
                        THEN trace
                        ELSE Append(trace, Event("sync_destination_attributes", 0))
            /\ statement' = statement + 1
            /\ UNCHANGED <<body_import_log, body_row, bpc>>
    /\ UNCHANGED <<off_body, body_field, body_is_3d_mapping, body_sdk_connection,
                   body_count, body_offset, page_has_rows, payload_is_empty,
                   posted_destination_attributes>>

\* base.py:259-276: the count; COMPLETE without batches for no rows, else
\* the number of batches saved and the generator created
body_construct_payload_and_import_to_fyle ==
    /\ next_statement = "construct_payload_and_import_to_fyle"
    /\ trace' = Append(trace, Event("construct_payload_and_import_to_fyle", 0))
    /\ IF body_count = 0
       THEN /\ body_import_log' = mark_complete_without_batches(body_import_log, now)
            /\ statement' = statement + 1
            /\ UNCHANGED <<bpc, posted_destination_attributes>>
       ELSE /\ body_import_log' =
                   [body_import_log EXCEPT !.total_batches_count =
                                               total_batches(body_field, body_count)]
            /\ bpc' = "fetch"
            /\ posted_destination_attributes' = "empty"
            /\ UNCHANGED statement
    /\ body_row' = body_import_log'
    /\ UNCHANGED <<off_body, body_field, body_is_3d_mapping, body_sdk_connection,
                   body_count, body_offset, page_has_rows, payload_is_empty>>

\* base.py:277-280, 301-307 and 309-333: the loop takes the next page from
\* the generator, which queries it then, and has its payload constructed
body_next_page ==
    /\ bpc = "fetch"
    /\ \E has_rows, fyle_payload_empty \in BOOLEAN :
         /\ ~has_rows => fyle_payload_empty
         /\ page_has_rows' = has_rows
         /\ payload_is_empty' = fyle_payload_empty
    /\ trace' = Append(trace, Event("get_destination_attributes_generator", page_number))
    /\ bpc' = "post"
    /\ UNCHANGED <<off_body, body_field, body_is_3d_mapping, body_sdk_connection,
                   body_count, body_import_log, body_row, statement, body_offset,
                   posted_destination_attributes>>

\* base.py:282-289 and 335-368: post_to_fyle_and_sync of the page, then the
\* page is added to the posted attributes
body_post_to_fyle_and_sync ==
    /\ bpc = "post"
    /\ LET calls == post_to_fyle_and_sync_calls(payload_is_empty)
           last == is_last_batch(body_field, body_offset, body_count)
           updates == \E i \in DOMAIN calls : calls[i] = "update_import_log_post_import"
           import_log == IF updates
                         THEN update_import_log_post_import(last, body_import_log, now)
                         ELSE body_import_log
       IN /\ trace' = trace \o [i \in DOMAIN calls |-> Event(calls[i], page_number)]
          /\ body_import_log' = import_log
          /\ body_row' = IF updates THEN import_log ELSE body_row
          /\ IF last
             THEN statement' = statement + 1 /\ bpc' = "call"
             ELSE bpc' = "fetch" /\ UNCHANGED statement
    /\ posted_destination_attributes' =
           IF page_has_rows THEN "rows" ELSE posted_destination_attributes
    /\ body_offset' = body_offset + BatchSize
    /\ UNCHANGED <<off_body, body_field, body_is_3d_mapping, body_sdk_connection,
                   body_count, page_has_rows, payload_is_empty>>

\* base.py:180-181
body_create_mappings ==
    /\ next_statement = "create_mappings"
    /\ trace' = IF posted_destination_attributes = "rows"
                THEN Append(trace, Event("create_mappings", 0))
                ELSE trace
    /\ statement' = statement + 1
    /\ UNCHANGED <<off_body, body_field, body_is_3d_mapping, body_sdk_connection,
                   body_count, body_import_log, body_row, bpc, body_offset,
                   page_has_rows, payload_is_empty, posted_destination_attributes>>

\* base.py:183-184
body_create_ccc_mappings ==
    /\ next_statement = "create_ccc_mappings"
    /\ trace' = IF body_field = "CATEGORY" /\ body_is_3d_mapping
                THEN Append(trace, Event("create_ccc_mappings", 0))
                ELSE trace
    /\ statement' = statement + 1
    /\ UNCHANGED <<off_body, body_field, body_is_3d_mapping, body_sdk_connection,
                   body_count, body_import_log, body_row, bpc, body_offset,
                   page_has_rows, payload_is_empty, posted_destination_attributes>>

\* base.py:186, the last statement
body_resolve_expense_attribute_errors ==
    /\ next_statement = "resolve_expense_attribute_errors"
    /\ trace' = Append(trace, Event("resolve_expense_attribute_errors", 0))
    /\ statement' = statement + 1
    /\ bpc' = "returned"
    /\ UNCHANGED <<off_body, body_field, body_is_3d_mapping, body_sdk_connection,
                   body_count, body_import_log, body_row, body_offset,
                   page_has_rows, payload_is_empty, posted_destination_attributes>>

\* a platform, connector or database call of the statement that is next
\* raises; the decorator of base.py:163 records it and saves the log
body_raises ==
    /\ bpc \in {"call", "fetch", "post"}
    /\ \E error \in ErrorKinds :
         body_import_log' = handle_import_exceptions_v2(body_import_log, error)
    /\ body_row' = body_import_log'
    /\ trace' = Append(trace, Event("handle_import_exceptions_v2",
                                    IF bpc = "call" THEN 0 ELSE page_number))
    /\ bpc' = "handled"
    /\ UNCHANGED <<off_body, body_field, body_is_3d_mapping, body_sdk_connection,
                   body_count, statement, body_offset, page_has_rows,
                   payload_is_empty, posted_destination_attributes>>

\* base.py:393-398: the controller has saved IN_PROGRESS with both counters
\* at 0 and calls the body
BodyInit ==
    /\ NoImports
    /\ NoWebhooks
    /\ NoPages
    /\ NoDedup
    /\ NoPayload
    /\ NoReconcile
    /\ NoFilter
    /\ NoRace
    /\ NoChain
    /\ body_field \in BodyFields
    /\ body_is_3d_mapping \in BOOLEAN
    /\ body_sdk_connection \in SdkConnections
    /\ body_count \in DestinationCounts
    /\ body_import_log = start_import_log(NewImportLog("IN_PROGRESS"))
    /\ body_row = body_import_log
    /\ statement = 1
    /\ bpc = "call"
    /\ body_offset = 0
    /\ page_has_rows = FALSE
    /\ payload_is_empty = TRUE
    /\ posted_destination_attributes = "None"
    /\ trace = <<>>

BodyNext ==
    \/ body_sync_expense_attributes
    \/ body_sync_destination_attributes
    \/ body_construct_payload_and_import_to_fyle
    \/ body_next_page
    \/ body_post_to_fyle_and_sync
    \/ body_create_mappings
    \/ body_create_ccc_mappings
    \/ body_resolve_expense_attribute_errors
    \/ body_raises

BodySpec == BodyInit /\ [][BodyNext]_vars

\* ------------------------------------------------- the row of the pair
\* the manager methods the two entry points call (base.py:374, models.py:41)
ManagerMethods == {"get_or_create", "update_or_create"}

\* a table without the unique constraint
unique_together_absent(table) == FALSE

\* models.py:34, unique_together = ('workspace', 'attribute_type'): the
\* database rejects the INSERT of a second row of the pair
unique_together(table) == table # {}

\* base.py:374-376, models.py:41-43: the SELECT of the manager method
objects_get(c) ==
    /\ cpc[c] = "get"
    /\ cpc' = [cpc EXCEPT ![c] =
                   IF import_log_table = {} THEN "create"
                   ELSE IF caller_kind[c] = "update_or_create" THEN "update"
                   ELSE "returned"]
    /\ UNCHANGED <<off_race, import_log_table, caller_kind, row_created, integrity_error>>

\* base.py:377-379, models.py:44-46: the INSERT with defaults status
\* IN_PROGRESS; when the constraint rejects it, the method selects again
objects_create(c) ==
    /\ cpc[c] = "create"
    /\ IF unique_together(import_log_table)
       THEN /\ integrity_error' = [integrity_error EXCEPT ![c] = TRUE]
            /\ cpc' = [cpc EXCEPT ![c] = "get"]
            /\ UNCHANGED <<import_log_table, row_created>>
       ELSE /\ import_log_table' = import_log_table \cup
                   {[id |-> Cardinality(import_log_table) + 1,
                     row |-> NewImportLog("IN_PROGRESS")]}
            /\ row_created' = [row_created EXCEPT ![c] = TRUE]
            /\ cpc' = [cpc EXCEPT ![c] = "returned"]
            /\ UNCHANGED integrity_error
    /\ UNCHANGED <<off_race, caller_kind>>

\* models.py:44-46: update_or_create sets the defaults on the row it found
objects_update(c) ==
    /\ cpc[c] = "update"
    /\ import_log_table' =
           {[r EXCEPT !.row.status = "IN_PROGRESS"] : r \in import_log_table}
    /\ cpc' = [cpc EXCEPT ![c] = "returned"]
    /\ UNCHANGED <<off_race, caller_kind, row_created, integrity_error>>

\* a run of the pair ends and saves its status (base.py:363-368 or the
\* error-handling wrapper)
import_log_save ==
    /\ import_log_table # {}
    /\ \E status \in {"COMPLETE", "FAILED"} :
         /\ \E r \in import_log_table : r.row.status # status
         /\ import_log_table' =
                {[r EXCEPT !.row.status = status] : r \in import_log_table}
    /\ UNCHANGED <<off_race, caller_kind, cpc, row_created, integrity_error>>

\* no row of the pair exists; every caller is about to call its method
RaceInit ==
    /\ NoImports
    /\ NoWebhooks
    /\ NoPages
    /\ NoDedup
    /\ NoPayload
    /\ NoReconcile
    /\ NoFilter
    /\ NoBody
    /\ NoChain
    /\ import_log_table = {}
    /\ caller_kind \in [Callers -> ManagerMethods]
    /\ cpc = [c \in Callers |-> "get"]
    /\ row_created = [c \in Callers |-> FALSE]
    /\ integrity_error = [c \in Callers |-> FALSE]

RaceNext ==
    \/ \E c \in Callers : objects_get(c)
    \/ \E c \in Callers : objects_create(c)
    \/ \E c \in Callers : objects_update(c)
    \/ import_log_save

RaceSpec == RaceInit /\ [][RaceNext]_vars

\* ------------------------------------------------------------- chain
\* dataclasses.py:6-12, as far as queues.py:97 reads a mapping setting: an
\* imported standard field, a custom field, a setting that is not imported
MappingSettings ==
    {[source_field |-> "PROJECT", is_custom |-> FALSE],
     [source_field |-> "COST_CENTER", is_custom |-> FALSE],
     [source_field |-> "CUSTOM_FIELD", is_custom |-> TRUE],
     [source_field |-> "CORPORATE_CARD", is_custom |-> FALSE]}

\* dataclasses.py:28-39 and the keys queues.py:18-117 reads: which imports
\* the host has configured
TaskSettings ==
    [custom_properties : BOOLEAN, import_categories : BOOLEAN, import_tax : BOOLEAN,
     import_vendors_as_merchants : BOOLEAN, import_items : BOOLEAN,
     mapping_settings : UNION {[1..n -> MappingSettings] : n \in 0..MaxSettings},
     import_dependent_fields : BOOLEAN]

Task(func, field) == [func |-> func, source_field |-> field]

\* the imports of the mapping settings appended first, the fixed ones after
chain_import_fields_to_fyle_tasks_settings_first(settings) ==
    LET imported(m) == m.source_field \in {"PROJECT", "COST_CENTER"} \/ m.is_custom
        of_settings == SelectSeq(settings.mapping_settings, imported)
    IN [i \in DOMAIN of_settings |->
            Task("trigger_import_via_schedule", of_settings[i].source_field)]
       \o (IF settings.import_dependent_fields
           THEN <<Task("import_dependent_fields", "")>> ELSE <<>>)
       \o (IF settings.custom_properties THEN <<Task("custom_properties", "")>> ELSE <<>>)
       \o (IF settings.import_categories
           THEN <<Task("trigger_import_via_schedule", "CATEGORY")>> ELSE <<>>)
       \o (IF settings.import_tax
           THEN <<Task("trigger_import_via_schedule", "TAX_GROUP")>> ELSE <<>>)
       \o (IF settings.import_vendors_as_merchants
           THEN <<Task("trigger_import_via_schedule", "MERCHANT")>> ELSE <<>>)
       \o (IF settings.import_items THEN <<Task("disable_items", "")>> ELSE <<>>)

\* queues.py:16-124: the tasks appended to the chain, in the order of the
\* source
chain_import_fields_to_fyle_tasks(settings) ==
    LET imported(m) == m.source_field \in {"PROJECT", "COST_CENTER"} \/ m.is_custom
        of_settings == SelectSeq(settings.mapping_settings, imported)
    IN (IF settings.custom_properties THEN <<Task("custom_properties", "")>> ELSE <<>>)
       \o (IF settings.import_categories
           THEN <<Task("trigger_import_via_schedule", "CATEGORY")>> ELSE <<>>)
       \o (IF settings.import_tax
           THEN <<Task("trigger_import_via_schedule", "TAX_GROUP")>> ELSE <<>>)
       \o (IF settings.import_vendors_as_merchants
           THEN <<Task("trigger_import_via_schedule", "MERCHANT")>> ELSE <<>>)
       \o (IF settings.import_items THEN <<Task("disable_items", "")>> ELSE <<>>)
       \o [i \in DOMAIN of_settings |->
               Task("trigger_import_via_schedule", of_settings[i].source_field)]
       \o (IF settings.import_dependent_fields
           THEN <<Task("import_dependent_fields", "")>> ELSE <<>>)

\* queues.py:7-127: the chain is built and, when it has a task, handed to
\* the cluster
chain_import_fields_to_fyle ==
    /\ kpc = "called"
    /\ chain' = chain_import_fields_to_fyle_tasks(task_settings)
    /\ kpc' = IF Len(chain') > 0 THEN "running" ELSE "returned"
    /\ UNCHANGED <<off_chain, task_settings, chain_position>>

\* django_q Chain, run at queues.py:127: the cluster executes the tasks one
\* after the other, in the order in which they were appended
chain_run ==
    /\ kpc = "running"
    /\ chain_position' = chain_position + 1
    /\ kpc' = IF chain_position' = Len(chain) THEN "returned" ELSE "running"
    /\ UNCHANGED <<off_chain, task_settings, chain>>

\* the host calls the function with one of its task settings
ChainInit ==
    /\ NoImports
    /\ NoWebhooks
    /\ NoPages
    /\ NoDedup
    /\ NoPayload
    /\ NoReconcile
    /\ NoFilter
    /\ NoBody
    /\ NoRace
    /\ task_settings \in TaskSettings
    /\ chain = <<>>
    /\ chain_position = 0
    /\ kpc = "called"

ChainNext ==
    \/ chain_import_fields_to_fyle
    \/ chain_run

ChainSpec == ChainInit /\ [][ChainNext]_vars

\* ------------------------------------------------------------------ claims

\* C1, as stated: over all interleavings of concurrent calls for the pair, at
\* most one call at a time is in the import body (between its IN_PROGRESS save
\* and the log reaching COMPLETE, FAILED or FATAL).
C1_at_most_one_in_body == Cardinality({w \in Workers : InSpan(w)}) <= 1

\* C1, amended: with an app other than Sage File Export, two calls are in the
\* import body at the same time only if neither of them fetched the log of the
\* pair in status IN_PROGRESS.
C1_in_body_together_only_past_idle_log ==
    app_name # SageFileExport =>
        \A v, w \in Workers :
            (v # w /\ InSpan(v) /\ InSpan(w)) =>
                /\ hist[v].obs_status # "IN_PROGRESS"
                /\ hist[w].obs_status # "IN_PROGRESS"

\* two calls of an app other than Sage File Export are in the body together
C1_two_calls_in_body ==
    /\ app_name # SageFileExport
    /\ \A w \in Workers : InSpan(w)

\* C2, as stated: a call that finds the log of its pair in status IN_PROGRESS,
\* not created by itself, returns at once, writes nothing to the log and makes
\* no sync or post call.
C2_in_progress_returns ==
    \A w \in Workers :
        hist[w].obs_status = "IN_PROGRESS" =>
            pc[w] = "skipped" /\ ~hist[w].saves /\ ~hist[w].calls

\* C2, amended: with an app other than Sage File Export, a call that finds the
\* log of its pair in status IN_PROGRESS, not created by itself, returns at
\* once, writes nothing to the log and makes no sync or post call.
C2_in_progress_returns_unless_sage ==
    app_name # SageFileExport =>
        \A w \in Workers :
            hist[w].obs_status = "IN_PROGRESS" =>
                pc[w] = "skipped" /\ ~hist[w].saves /\ ~hist[w].calls

\* of two calls, one is in the body and the other has found IN_PROGRESS, with
\* no fresh watermark, and has returned
C2_one_proceeds_one_returns ==
    /\ app_name # SageFileExport
    /\ \E v, w \in Workers :
         /\ InSpan(v)
         /\ pc[w] = "skipped"
         /\ hist[w].obs_status = "IN_PROGRESS"
         /\ ~hist[w].obs_fresh_sync_after

\* C3: a call made after the staleness window has passed over a log that a
\* crashed run left IN_PROGRESS starts a fresh run; it does not return at the
\* guard.
C3_dangling_in_progress_restarted ==
    \A w \in Workers : hist[w].obs_dangling => pc[w] # "skipped"

C7_failed_run_persists_failure ==
    \A w \in Workers :
        /\ (pc[w] = "handled" /\ last_writer = w) =>
               /\ TheLog.status \in {"FAILED", "FATAL"}
               /\ TheLog.status = "FATAL" <=>
                      TheLog.error_log[Len(TheLog.error_log)] = "InvalidTokenError"
        /\ pc[w] = "propagated" => ~constructor_accepts(source_field)

\* a run has ended on a credential failure, its log persisted FATAL
C7_run_ended_fatal ==
    \E w \in Workers :
        pc[w] = "handled" /\ last_writer = w /\ TheLog.status = "FATAL"

\* C8: when the post of a batch fails after k batches were posted, the log is
\* persisted with processed_batches_count = k and with the total_batches_count
\* set at the start of the run.
C8_failed_batch_keeps_progress ==
    [][\A w \in Workers :
          (pc[w] = "batch" /\ pc'[w] = "handled") =>
              /\ TheLog'.processed_batches_count = self[w].offset \div BatchSize
              /\ TheLog'.total_batches_count =
                     total_batches(source_field, self[w].count)]_vars

\* a run has failed after its first batch and before its last, and the log is
\* as the run left it
C8_run_failed_between_batches ==
    \E w \in Workers :
        /\ pc[w] = "handled" /\ last_writer = w
        /\ TheLog.status \in {"FAILED", "FATAL"}
        /\ TheLog.processed_batches_count >= 1
        /\ TheLog.processed_batches_count < TheLog.total_batches_count

\* C9: after a run has ended in FAILED, the next call for the pair, with no
\* successful run in the last 30 minutes, does not return at the guard: it
\* persists IN_PROGRESS with both counters at 0 and posts from the first page.
C9_failed_run_restarts_from_zero ==
    \A w \in Workers :
        (hist[w].obs_status = "FAILED" /\ ~hist[w].obs_recent_success) =>
            /\ pc[w] # "skipped"
            /\ pc[w] = "sync" =>
                   /\ self[w].import_log.status = "IN_PROGRESS"
                   /\ self[w].import_log.processed_batches_count = 0
                   /\ self[w].import_log.total_batches_count = 0
                   /\ last_writer = w => TheLog = self[w].import_log
            /\ pc[w] = "batch" =>
                   self[w].offset =
                       self[w].import_log.processed_batches_count * BatchSize

\* a call has found the log FAILED with progress recorded, has persisted the
\* restart and stands before its first page
C9_restarted_after_failure ==
    \E w \in Workers :
        /\ hist[w].obs_status = "FAILED" /\ ~hist[w].obs_recent_success
        /\ pc[w] = "batch" /\ self[w].offset = 0
        /\ last_writer = w /\ TheLog.processed_batches_count = 0

\* C10: a persisted log in status IN_PROGRESS has processed_batches_count <=
\* total_batches_count, for every module and size of the destination set.
C10_processed_within_total ==
    \A import_log \in import_logs :
        import_log.status = "IN_PROGRESS" =>
            import_log.processed_batches_count <= import_log.total_batches_count

\* a run is between two batches, the log IN_PROGRESS with a batch processed
C10_in_progress_between_batches ==
    \E import_log \in import_logs :
        /\ import_log.status = "IN_PROGRESS"
        /\ import_log.processed_batches_count >= 1
        /\ \E w \in Workers : pc[w] = "batch" /\ last_writer = w

\* C11, as stated: the status of the log changes to COMPLETE only in the step
\* of a run that follows the post of its last batch.
C11_complete_only_after_last_batch ==
    [][(/\ import_logs' # {}
        /\ TheLog'.status = "COMPLETE"
        /\ IF import_logs = {} THEN TRUE ELSE TheLog.status # "COMPLETE")
       => \E w \in Workers :
              /\ pc[w] = "batch" /\ pc'[w] = "after_import"
              /\ is_last_batch(source_field, self[w].offset, self[w].count)]_vars

\* C11, amended: the status of the log changes to COMPLETE only in the step of
\* a run that follows its last batch (posted, or not posted because its
\* payload is empty), or in the step that counts the destination attributes
\* and finds none.
C11_complete_only_after_last_batch_or_none ==
    [][(/\ import_logs' # {}
        /\ TheLog'.status = "COMPLETE"
        /\ IF import_logs = {} THEN TRUE ELSE TheLog.status # "COMPLETE")
       => \E w \in Workers :
              \/ /\ pc[w] = "batch" /\ pc'[w] = "after_import"
                 /\ is_last_batch(source_field, self[w].offset, self[w].count)
              \/ /\ pc[w] = "count" /\ pc'[w] = "after_import"
                 /\ self'[w].count = 0]_vars

\* a run of several batches has posted its last and left the log COMPLETE
C11_completed_after_batches ==
    \E w \in Workers :
        /\ pc[w] = "after_import" /\ last_writer = w
        /\ TheLog.status = "COMPLETE"
        /\ TheLog.processed_batches_count >= 2

\* C12: when a run has set its log COMPLETE, the log (the run's object and
\* the row it saved) has processed_batches_count = total_batches_count and an
\* empty error_log, and for a paged module total_batches_count is the number
\* of filtered destination attributes divided by 200, rounded up.
C12_complete_log_is_consistent ==
    /\ \A w \in Workers :
           (pc[w] = "after_import" /\ self[w].import_log.status = "COMPLETE")
           => LET import_log == self[w].import_log
                  n == self[w].count
              IN /\ import_log.processed_batches_count = import_log.total_batches_count
                 /\ import_log.error_log = <<>>
                 /\ source_field \in PagedFields
                    => /\ import_log.total_batches_count * BatchSize >= n
                       /\ (import_log.total_batches_count - 1) * BatchSize < n
    /\ (import_logs # {} /\ TheLog.status = "COMPLETE")
       => /\ TheLog.processed_batches_count = TheLog.total_batches_count
          /\ TheLog.error_log = <<>>

\* a paged module has completed a run over exactly one full page, after an
\* earlier run had failed and left its error in the log
C12_completed_full_page ==
    \E w \in Workers :
        /\ pc[w] = "after_import" /\ last_writer = w
        /\ source_field \in PagedFields
        /\ self[w].count = BatchSize
        /\ ~self[w].is_created
        /\ TheLog.status = "COMPLETE"
        /\ TheLog.total_batches_count = 1

\* C13, as stated: once a save of the ImportLog with a status other than
\* IN_PROGRESS has returned, the cache entry that _is_import_in_progress reads
\* for the pair does not hold True.
C13_saved_log_leaves_no_true_entry ==
    (/\ import_logs # {}
     /\ ~signal_pending
     /\ TheLog.status # "IN_PROGRESS")
    => cache[cache_key("IMPORT_LOG_IN_PROGRESS")] # "True"

\* C14, as stated: a CREATED or UPDATED webhook whose processing is decided
\* while the ImportLog of its pair is IN_PROGRESS is skipped and changes no
\* ExpenseAttribute.
C14_webhook_skipped_during_import ==
    [][(/\ wpc = "decide" /\ wpc' # "decide"
        /\ webhook_body.action \in {"CREATED", "UPDATED"}
        /\ import_logs # {}
        /\ TheLog.status = "IN_PROGRESS")
       => /\ wpc' = "skipped"
          /\ expense_attributes' = expense_attributes]_vars

\* C15, as stated: when process_webhook returns from a DELETED webhook, no
\* active ExpenseAttribute has the webhook's attribute type and source id.
C15_deleted_leaves_none_active ==
    [][(/\ wpc = "decide" /\ wpc' # "decide"
        /\ webhook_body.action = "DELETED")
       => ~\E a \in expense_attributes' :
               /\ a.attribute_type = stored_attribute_type(resource)
               /\ a.source_id = webhook_body.id
               /\ a.active]_vars

\* C15, amended: when process_webhook returns from a DELETED webhook of a
\* resource type other than EXPENSE_FIELD, and not of an EMPLOYEE whose
\* has_accepted_invite is false, no active ExpenseAttribute has the webhook's
\* attribute type and source id, whether or not an import is in progress.
C15_deleted_leaves_none_active_but_fields_and_uninvited ==
    [][(/\ wpc = "decide" /\ wpc' # "decide"
        /\ webhook_body.action = "DELETED"
        /\ resource # "EXPENSE_FIELD"
        /\ ~(resource = "EMPLOYEE" /\ ~webhook_body.has_accepted_invite))
       => ~\E a \in expense_attributes' :
               /\ a.attribute_type = stored_attribute_type(resource)
               /\ a.source_id = webhook_body.id
               /\ a.active]_vars

\* a DELETED webhook has been applied while the ImportLog of its pair was
\* IN_PROGRESS and the cache said so: the row of its source id is inactive,
\* the row of the other source id is still active
C15_deleted_applied_during_import ==
    /\ wpc = "returned"
    /\ webhook_body.action = "DELETED"
    /\ resource \notin {"EXPENSE_FIELD", "EMPLOYEE"}
    /\ import_logs # {} /\ TheLog.status = "IN_PROGRESS"
    /\ cache[cache_key("IMPORT_LOG_IN_PROGRESS")] = "True"
    /\ \E a \in expense_attributes : a.source_id = webhook_body.id /\ ~a.active
    /\ \E a \in expense_attributes : a.source_id # webhook_body.id /\ a.active

\* the pages of the run, one after the other
C16_fetched ==
    LET RECURSIVE concat(_)
        concat(ps) == IF ps = <<>> THEN <<>> ELSE Head(ps) \o concat(Tail(ps))
    IN concat(pages)

\* C16, as stated: when the generator of a run is exhausted, every row that
\* has matched the filter from the count to the last page is in exactly one
\* of its pages, and no row is in two places of the pages.
C16_pages_are_the_filtered_set ==
    gpc = "done"
    => /\ \A a \in counted_attributes \cap destination_attributes :
              Cardinality({i \in DOMAIN C16_fetched : C16_fetched[i].id = a.id}) = 1
       /\ \A i, j \in DOMAIN C16_fetched :
              C16_fetched[i].id = C16_fetched[j].id => i = j

\* C16, amended: when the generator of a run is exhausted and no row of the
\* pair was written since the count, the pages, one after the other, are the
\* filtered rows ordered by (value, id).
C16_pages_are_the_unchanged_filtered_set ==
    (gpc = "done" /\ ~destination_changed)
    => C16_fetched =
           order_by(construct_attributes_filter(destination_attributes, active_filter))

\* a run over an unchanged table has fetched a full page and a second one,
\* and a value is on both sides of the page boundary
C16_two_pages_fetched ==
    /\ gpc = "done" /\ ~destination_changed
    /\ Len(pages) = 2
    /\ Len(pages[1]) = PageLimit
    /\ pages[1][PageLimit].value = pages[2][1].value
    /\ \E a \in destination_attributes : ~a.active

\* code-prefixing applies to a list: both flags are set and a record has a code
C17_prefixing_applies ==
    /\ prepend_code /\ prepend_code_to_name
    /\ \E i \in DOMAIN attribute_list : attribute_list[i].code # <<>>

\* C17, as stated: remove_duplicate_attributes applied to its own output
\* returns that output, records and values, and its output is never longer
\* than its input.
C17_idempotent ==
    dpc = "twice"
    => /\ unique_again = unique_attributes
       /\ Len(unique_attributes) <= Len(attribute_list)

\* C17, amended: where code-prefixing does not apply, remove_duplicate_attributes
\* applied to its own output returns that output, records and values; with
\* or without code-prefixing an output is never longer than its input.
C17_idempotent_without_prefixing ==
    dpc = "twice"
    => /\ ~C17_prefixing_applies => unique_again = unique_attributes
       /\ Len(unique_attributes) <= Len(attribute_list)
       /\ Len(unique_again) <= Len(unique_attributes)

\* the function was applied twice to a list with codes and with duplicates,
\* the module not prefixing codes
C17_applied_twice_without_prefixing ==
    /\ dpc = "twice"
    /\ prepend_code /\ ~prepend_code_to_name
    /\ \E i \in DOMAIN attribute_list : attribute_list[i].code # <<>>
    /\ Len(unique_attributes) < Len(attribute_list)
    /\ Len(unique_attributes) >= 2

\* the rendered name of the i-th record of the list, lower-cased
C18_folded(i) ==
    LET name == IF prepend_code /\ prepend_code_to_name /\ attribute_list[i].code # <<>>
                THEN attribute_list[i].code \o <<": ">> \o attribute_list[i].value
                ELSE attribute_list[i].value
    IN [k \in DOMAIN name |-> IF name[k] = "A" THEN "a" ELSE name[k]]

\* C18: remove_duplicate_attributes keeps a record exactly if no earlier
\* record of the input has the same lower-cased rendered name; the kept
\* records are in input order and no two of them share such a name.
C18_first_of_each_name_kept ==
    dpc = "once"
    => LET kept == {unique_attributes[k].id : k \in DOMAIN unique_attributes}
       IN /\ \A i \in DOMAIN attribute_list :
                 i \in kept <=> ~\E j \in 1..(i - 1) : C18_folded(j) = C18_folded(i)
          /\ \A k, l \in DOMAIN unique_attributes :
                 k < l => unique_attributes[k].id < unique_attributes[l].id
          /\ \A k, l \in DOMAIN unique_attributes :
                 k # l => C18_folded(unique_attributes[k].id)
                          # C18_folded(unique_attributes[l].id)

\* code-prefixing applies and, of a list of three, a record is dropped whose
\* value differs from that of an earlier record beyond its case: the code of
\* one of the two makes their names equal
C18_dropped_by_case_and_by_code ==
    /\ dpc = "once"
    /\ C17_prefixing_applies
    /\ Len(attribute_list) = 3
    /\ Len(unique_attributes) < 3
    /\ \E i, j \in DOMAIN attribute_list :
           /\ i < j
           /\ C18_folded(i) = C18_folded(j)
           /\ Len(attribute_list[i].value) # Len(attribute_list[j].value)

\* C19, as stated: two calls of a module's payload constructor with the same
\* destination page and the same platform attributes return the same payload,
\* entries, order and casing.
C19_payload_deterministic ==
    ppc = "called_twice" => payload_second = payload_first

\* C20, as stated: when a run has completed and the import is run again with
\* no change to the destination rows or the platform attributes, the payload
\* of the second run is empty, whatever the module.
C20_second_payload_empty ==
    ppc \in {"ran_twice", "ran_twice_moved_back"} => payload_second = <<>>

\* C20, amended: the payload of the second run is empty for the project,
\* category and cost-center modules when its sync_after is the completion of
\* the first run, not moved back.
C20_second_payload_empty_when_paged ==
    (ppc = "ran_twice" /\ module_kind \in PagedFields) => payload_second = <<>>

\* a paged module with auto-sync has created a value in its first run, the
\* pair has an inactive row whose name exists on the platform, and the second
\* run has found nothing to post
C20_second_run_posted_nothing ==
    /\ ppc = "ran_twice"
    /\ module_kind \in PagedFields
    /\ is_auto_sync_enabled
    /\ \E i \in DOMAIN payload_first : payload_first[i].op = "create"
    /\ \E i \in DOMAIN destination_rows :
           /\ ~destination_rows[i].active
           /\ \E p \in platform_attributes :
                  lower(p.value) = lower(destination_rows[i].value)
    /\ payload_second = <<>>

\* C21: in the Merchant payload and the ExpenseCustomField options, a value
\* present and active on exactly one side is in the result, and a value
\* inactive on either side is not, values compared without regard to case
C21_union_minus_inactive ==
    (ppc = "constructed" /\ module_kind \in {"MERCHANT", "CUSTOM_FIELD"}) =>
        LET destination == {page[i] : i \in DOMAIN page}
            result == {lower(n.value) : n \in posted_names(module_kind, payload_first)}
            on(side) == {lower(a.value) : a \in side}
            inactive_on(side) == {lower(a.value) : a \in {b \in side : ~b.active}}
            one_sided == (on(destination) \ on(platform_attributes))
                         \cup (on(platform_attributes) \ on(destination))
            inactive == inactive_on(destination) \cup inactive_on(platform_attributes)
        IN /\ \A v \in one_sided \ inactive : v \in result
           /\ \A v \in inactive : v \notin result

\* C22: in a Category import an entry without id (a create) is emitted only
\* for a destination attribute whose lower-cased name no existing platform
\* category has
C22_category_created_only_when_absent ==
    (rpc = "constructed" /\ reconciled_field = "CATEGORY") =>
        \A i \in DOMAIN fyle_payload :
            fyle_payload[i].id = {} =>
                lower(fyle_payload[i].name)
                    \notin {lower(q.value) : q \in expense_attribute_rows}

\* C23: Project construct_fyle_payload emits a create exactly for the
\* attributes that are absent from the platform and destination-active (an
\* unknown flag counts as active), an update carrying the platform id exactly
\* for those present, destination-inactive and with auto-sync enabled, and
\* nothing otherwise
C23_project_create_and_disable ==
    (rpc = "constructed" /\ reconciled_field = "PROJECT") =>
        \A i \in DOMAIN paginated_attributes :
            LET attribute == paginated_attributes[i]
                platform == {q \in expense_attribute_rows :
                                lower(q.value) = lower(attribute.value)}
                entries == {fyle_payload[k] : k \in {n \in DOMAIN fyle_payload :
                                fyle_payload[n].name = attribute.value}}
                active == attribute.active # {FALSE}
            IN /\ (\E e \in entries : e.id = {}) <=> (platform = {} /\ active)
               /\ (\E e \in entries : e.id # {})
                      <=> (platform # {} /\ ~active /\ reconciled_auto_sync)
               /\ \A e \in entries : e.id \subseteq {q.value : q \in platform}

\* C24: an attribute whose active flag is unknown is treated as active by the
\* Project and CostCenter reconcilers: absent from the platform it yields a
\* create, and it never yields an update-to-disable
C24_unknown_flag_is_active ==
    (rpc = "constructed" /\ reconciled_field \in {"PROJECT", "COST_CENTER"}) =>
        \A i \in DOMAIN paginated_attributes :
            LET attribute == paginated_attributes[i]
                absent == \A q \in expense_attribute_rows :
                              lower(q.value) # lower(attribute.value)
                entries == {fyle_payload[k] : k \in {n \in DOMAIN fyle_payload :
                                lower(fyle_payload[n].name) = lower(attribute.value)}}
            IN attribute.active = {} =>
                   /\ absent => \E e \in entries : e.id = {}
                   /\ \A e \in entries : e.id = {}

\* C25: when a destination value matches an existing platform cost center
\* only without regard to case, no create is emitted for it, and every entry
\* emitted for it carries the platform's id and the platform's spelling
C25_cost_center_reuses_platform_casing ==
    (rpc = "constructed" /\ reconciled_field = "COST_CENTER") =>
        \A i \in DOMAIN paginated_attributes :
            LET attribute == paginated_attributes[i]
                platform == {q \in expense_attribute_rows :
                                lower(q.value) = lower(attribute.value)}
                entries == {fyle_payload[k] : k \in {n \in DOMAIN fyle_payload :
                                lower(fyle_payload[n].name) = lower(attribute.value)}}
            IN (platform # {} /\ \A q \in platform : q.value # attribute.value) =>
                   \A e \in entries : /\ e.id # {}
                                      /\ e.id \subseteq {q.value : q \in platform}
                                      /\ e.name \in {q.value : q \in platform}

C27_filter_is_or_of_active_kinds ==
    (fpc = "queried" /\ Cardinality(destination_sync_methods) > 1) =>
        LET of_active_kind == candidate.display_name
                                  \in {display_name_of(m) : m \in destination_sync_methods}
            otherwise_selected == /\ \A s \in filter_sync_after : candidate.updated_at >= s
                                  /\ filter_sync_after = {} => candidate.active
        IN candidate_selected <=> (of_active_kind /\ otherwise_selected)

\* C28: on the destination side the filter restricts to active records
\* exactly when no watermark exists; with a watermark it selects every record
\* updated at or after it, active or not, whatever auto-sync is
C28_active_only_without_watermark ==
    ppc = "constructed" =>
    \A sync_after \in {{}, {0}, {1}} :
        LET selected == selected_rows(destination_rows,
                            filters_of(module_kind, sync_after, is_auto_sync_enabled))
            rows(of) == {of[i] : i \in DOMAIN of}
            recent == {a \in rows(destination_rows) :
                          \A s \in sync_after : a.updated_at >= s}
        IN IF sync_after = {}
           THEN rows(selected) = {a \in rows(destination_rows) : a.active}
           ELSE recent \subseteq rows(selected)

\* C28 as the filter of Base has it: active records only exactly when no
\* watermark exists or auto-sync is disabled
C28_active_only_without_watermark_or_auto_sync ==
    (ppc = "constructed" /\ module_kind # "CATEGORY") =>
        \A sync_after \in {{}, {0}, {1}} :
            LET selected == selected_rows(destination_rows,
                                filters_of(module_kind, sync_after, is_auto_sync_enabled))
                rows(of) == {of[i] : i \in DOMAIN of}
                recent == {a \in rows(destination_rows) :
                              \A s \in sync_after : a.updated_at >= s}
            IN IF sync_after = {} \/ ~is_auto_sync_enabled
               THEN /\ \A a \in rows(selected) : a.active
                    /\ {a \in recent : a.active} \subseteq rows(selected)
               ELSE recent \subseteq rows(selected)

\* a run with a watermark and auto-sync selected an inactive row
C28_inactive_row_selected ==
    /\ ppc = "constructed"
    /\ module_kind = "PROJECT"
    /\ is_auto_sync_enabled
    /\ \E i \in DOMAIN page : ~page[i].active

\* C29: process_webhook with a resource type it does not support logs and
\* returns without raising, and changes no ExpenseAttribute, no ImportLog and
\* no cache entry
C29_unsupported_resource_is_ignored ==
    [][process_webhook_of_unsupported_resource =>
           /\ wpc' = "rejected"
           /\ UNCHANGED <<expense_attributes, import_logs, cache>>]_vars

\* C30: after process_webhook has handled a SELECT custom-field event, every
\* option of the event's option list has a stored ExpenseAttribute row of
\* that field, and every stored value of the field that is absent from the
\* list is inactive
C30_options_are_diffed ==
    [][(/\ process_webhook_decided
        /\ wpc' = "returned"
        /\ resource = "EXPENSE_FIELD"
        /\ webhook_body.type = "SELECT") =>
           LET stored == {a \in expense_attributes' :
                             a.attribute_type = stored_attribute_type("EXPENSE_FIELD")}
           IN /\ \A option \in webhook_body.options : \E a \in stored : a.value = option
              /\ \A a \in stored : a.value \notin webhook_body.options => ~a.active]_vars

\* an event has been handled that left one option active and another, stored
\* by an earlier event under another id, disabled
C30_option_kept_and_option_disabled ==
    /\ wpc = "returned"
    /\ resource = "EXPENSE_FIELD"
    /\ \E a, b \in expense_attributes :
         /\ a.value # b.value
         /\ a.source_id # b.source_id
         /\ a.active
         /\ ~b.active
         /\ webhook_body.id = a.source_id

\* the source fields that have a module class of their own, tasks.py:36-42
SOURCE_FIELD_CLASS_MAP == {"PROJECT", "CATEGORY", "COST_CENTER", "TAX_GROUP", "MERCHANT"}

\* C40: for each source field PROJECT, CATEGORY, COST_CENTER, TAX_GROUP and
\* MERCHANT, a scheduled call that finds no ImportLog row constructs the
\* module and reaches the run controller (whose get_or_create then creates
\* the row IN_PROGRESS): the call's step out of tasks.py ends at the
\* controller, never in an exception of the constructor
C40_every_module_reaches_the_controller ==
    [][\A w \in Workers :
          (/\ trigger_import_via_schedule(w)
           /\ source_field \in SOURCE_FIELD_CLASS_MAP
           /\ import_logs = {})
          => pc'[w] = "check"]_vars

\* the watermark column of the pair's row, None when there is no row
stored_watermark == IF import_logs = {} THEN {} ELSE TheLog.last_successful_run_at

\* C39 as stated: last_successful_run_at is written only in a step that sets
\* status COMPLETE: every step that changes the row's watermark leaves the row
\* COMPLETE, so a guard abort, the start of a run, a non-final batch and a
\* failed run leave the stored watermark unchanged
C39_watermark_changes_only_with_complete ==
    [][stored_watermark' # stored_watermark => TheLog'.status = "COMPLETE"]_vars

\* C39 (amended): a run assigns last_successful_run_at only in a step that
\* sets status COMPLETE. Every other write of the row (the start of a run, a
\* non-final batch, a failed run) saves the watermark that the run's
\* ImportLog object has held since it was fetched, which is the stored one
\* unless another run completed in between; a guard abort writes nothing.
C39_watermark_assigned_only_with_complete ==
    [][stored_watermark' # stored_watermark =>
          \/ TheLog'.status = "COMPLETE"
          \/ \E w \in Workers :
                 /\ last_writer' = w
                 /\ pc[w] \in {"start"} \cup BodyPcs
                 /\ stored_watermark' = self[w].import_log.last_successful_run_at]_vars

\* a run has failed on a row that carried the watermark of an earlier run,
\* and the watermark is still there
C39_failed_run_kept_watermark ==
    \E w \in Workers :
        /\ pc[w] = "handled" /\ last_writer = w
        /\ TheLog.status \in {"FAILED", "FATAL"}
        /\ TheLog.processed_batches_count >= 1
        /\ TheLog.last_successful_run_at # {}

\* C37: webhook processing never writes the ImportLog: every step of
\* process_webhook (a step that moves the handler, takes a body, decides on
\* the import or writes expense attributes) leaves the rows of the ImportLog
\* table, with status, counters, error_log and last_successful_run_at, as
\* they were
C37_webhook_never_writes_import_log ==
    [][(\/ wpc' # wpc
        \/ webhook_body' # webhook_body
        \/ import_in_progress' # import_in_progress
        \/ expense_attributes' # expense_attributes)
       => import_logs' = import_logs]_vars

\* an event that arrived during an import was looked up against the log and
\* skipped, and the log is IN_PROGRESS as the import left it
C37_event_skipped_during_import ==
    /\ wpc = "skipped"
    /\ import_logs # {}
    /\ TheLog.status = "IN_PROGRESS"
    /\ cache[cache_key("IMPORT_LOG_IN_PROGRESS")] = "True"

\* C35: for every destination count n >= 1 the paginator yields exactly
\* ceil(n/200) pages, and is_last_batch is true on the final page and false
\* on every earlier page: the step that processes page k of a run ends the
\* loop, and sets COMPLETE, exactly when k = ceil(n/200), so a run sets
\* COMPLETE at most once and only after all pages were processed
C35_last_flag_on_final_page_only ==
    [][\A w \in Workers :
          (/\ source_field \in PagedFields
           /\ pc[w] = "batch"
           /\ pc'[w] \in {"batch", "after_import"}
           /\ self'[w].offset # self[w].offset)
          => LET n == self[w].count
                 k == self[w].offset \div BatchSize + 1
                 ceil == IF n % BatchSize = 0 THEN n \div BatchSize
                                              ELSE n \div BatchSize + 1
             IN /\ n >= 1
                /\ k <= ceil
                /\ pc'[w] = "after_import" <=> k = ceil
                /\ self'[w].import_log.status = "COMPLETE" <=> k = ceil
                /\ self'[w].import_log.processed_batches_count = k]_vars

\* a run over more rows than one page holds has processed its final page,
\* the second, and is COMPLETE
C35_final_page_of_several_processed ==
    \E w \in Workers :
        /\ source_field \in PagedFields
        /\ pc[w] = "after_import"
        /\ self[w].count > BatchSize
        /\ self[w].import_log.processed_batches_count >= 2
        /\ self[w].import_log.status = "COMPLETE"

\* the positions of the trace at which the step was made
positions_of(steps) == {i \in DOMAIN trace : trace[i].step \in steps}

\* C32 as stated: a configuration error is raised immediately to the caller of
\* the import: a run whose connector does not provide the sync method a
\* destination_sync_method names does not end in the error-handling wrapper
\* with the log saved for the next scheduled attempt
C32_missing_sync_method_reaches_the_caller ==
    ~ /\ bpc = "handled"
      /\ body_sdk_connection = "lacking"
      /\ body_row.status = "FAILED"
      /\ body_row.error_log = <<"AttributeError">>

\* C34: within one run the batches are strictly sequential: when page N+1 is
\* fetched from the destination store, the post of page N (made when its
\* payload was not empty) and the update of the log for page N are behind,
\* and the saved row counts the N pages: processed_batches_count = N
C34_batches_are_sequential ==
    /\ \A j \in positions_of({"get_destination_attributes_generator"}) :
         trace[j].page >= 2 =>
             /\ \E i \in 1..(j - 1) :
                    trace[i] = Event("update_import_log_post_import", trace[j].page - 1)
             /\ \A i \in positions_of({"post_bulk", "update_import_log_post_import"}) :
                    trace[i].page < trace[j].page => i < j
    /\ bpc = "post" => body_row.processed_batches_count = page_number - 1

\* the second page is fetched, after the first was posted
C34_second_page_fetched ==
    /\ bpc = "post"
    /\ page_number = 2
    /\ \E i \in DOMAIN trace : trace[i] = Event("post_bulk", 1)

\* C36: in the run body the steps occur in the order platform sync,
\* destination sync, post of all batches, second platform sync, mapping
\* creation, error resolution; a run that returned has made both platform
\* syncs, the batches and the error resolution; mappings are created only
\* after every batch of the run went through post_to_fyle_and_sync, so never
\* in a run where a batch failed
C36_steps_in_order ==
    LET phase(i) ==
            CASE trace[i].step = "sync_expense_attributes" ->
                     IF \E h \in 1..(i - 1) : trace[h].step = "sync_expense_attributes"
                     THEN 4 ELSE 1
              [] trace[i].step = "sync_destination_attributes" -> 2
              [] trace[i].step \in {"construct_payload_and_import_to_fyle",
                                    "get_destination_attributes_generator",
                                    "post_bulk", "update_import_log_post_import"} -> 3
              [] trace[i].step \in {"create_mappings", "create_ccc_mappings"} -> 5
              [] trace[i].step = "resolve_expense_attribute_errors" -> 6
              [] OTHER -> 7
        batches == IF body_count % BatchSize = 0 THEN body_count \div BatchSize
                                                 ELSE body_count \div BatchSize + 1
    IN /\ \A i, j \in DOMAIN trace : i < j => phase(i) <= phase(j)
       /\ Cardinality(positions_of({"sync_expense_attributes"})) <= 2
       /\ \A step \in {"sync_destination_attributes", "create_mappings",
                       "create_ccc_mappings", "resolve_expense_attribute_errors"} :
              Cardinality(positions_of({step})) <= 1
       /\ bpc = "returned" =>
              /\ Cardinality(positions_of({"sync_expense_attributes"})) = 2
              /\ positions_of({"construct_payload_and_import_to_fyle"}) # {}
              /\ positions_of({"resolve_expense_attribute_errors"}) # {}
              /\ Cardinality(positions_of({"update_import_log_post_import"})) = batches
       /\ positions_of({"create_mappings"}) # {} =>
              /\ Cardinality(positions_of({"update_import_log_post_import"})) = batches
              /\ \A i \in positions_of({"handle_import_exceptions_v2"}) :
                     trace[i].page = 0

\* a run over more than one page has returned with its mappings created
C36_run_returned_with_mappings ==
    /\ bpc = "returned"
    /\ body_count > BatchSize
    /\ body_sdk_connection = "complete"
    /\ positions_of({"create_mappings"}) # {}
    /\ positions_of({"post_bulk"}) # {}

\* C38: a batch whose reconciled payload is empty makes no post call to the
\* platform but still advances the ImportLog exactly as a posted batch does:
\* processed_batches_count increases by 1 in the saved row, and on the last
\* batch the status becomes COMPLETE and last_successful_run_at is set
C38_empty_batch_advances_log ==
    [][(body_offset' # body_offset /\ payload_is_empty) =>
          LET last == body_offset + BatchSize >= body_count
          IN /\ \A i \in DOMAIN trace' :
                    i > Len(trace) => trace'[i].step # "post_bulk"
             /\ body_row'.processed_batches_count =
                    body_row.processed_batches_count + 1
             /\ body_row'.total_batches_count = body_row.total_batches_count
             /\ IF last
                THEN /\ body_row'.status = "COMPLETE"
                     /\ body_row'.last_successful_run_at = {now}
                ELSE /\ body_row'.status = "IN_PROGRESS"
                     /\ body_row'.last_successful_run_at =
                            body_row.last_successful_run_at]_vars

\* the last batch of a run had rows and an empty payload: nothing was posted
\* for it and the log is COMPLETE
C38_empty_last_batch_completed ==
    /\ next_statement = "sync_expense_attributes"
    /\ body_offset > 0
    /\ page_has_rows /\ payload_is_empty
    /\ body_row.status = "COMPLETE"
    /\ body_row.processed_batches_count = body_offset \div BatchSize
    /\ Event("post_bulk", body_offset \div BatchSize) \notin
           {trace[i] : i \in DOMAIN trace}

\* C33: for every (workspace, attribute type) at most one ImportLog row
\* exists in every reachable state, including after concurrent first-time
\* check_import_log_and_start_import and
\* update_or_create_in_progress_import_log calls for the same pair
C33_at_most_one_row ==
    /\ Cardinality(import_log_table) <= 1
    /\ Cardinality({c \in Callers : row_created[c]}) <= 1
    /\ \A c \in Callers :
           cpc[c] = "returned" => Cardinality(import_log_table) = 1

\* a first-time get_or_create and a first-time update_or_create both found
\* no row; one created it, the INSERT of the other was rejected, and both
\* have returned
C33_first_calls_raced ==
    \E c, d \in Callers :
        /\ caller_kind[c] = "get_or_create" /\ caller_kind[d] = "update_or_create"
        /\ cpc[c] = "returned" /\ cpc[d] = "returned"
        /\ row_created[c] # row_created[d]
        /\ integrity_error[c] # integrity_error[d]

\* C31: chain_import_fields_to_fyle enqueues the imports in a fixed order:
\* the CATEGORY import precedes every mapping-setting import (PROJECT,
\* COST_CENTER, custom fields), and the dependent-fields task, when
\* configured, is the last task of the chain; every configured import is in
\* the chain
C31_chain_order ==
    kpc \in {"running", "returned"} =>
        LET of_settings == {"PROJECT", "COST_CENTER", "CUSTOM_FIELD"}
            at(func, fields) ==
                {i \in DOMAIN chain : chain[i].func = func /\ chain[i].source_field \in fields}
        IN /\ \A i \in at("trigger_import_via_schedule", {"CATEGORY"}) :
                  \A j \in at("trigger_import_via_schedule", of_settings) : i < j
           /\ task_settings.import_categories <=>
                  at("trigger_import_via_schedule", {"CATEGORY"}) # {}
           /\ \A n \in DOMAIN task_settings.mapping_settings :
                  task_settings.mapping_settings[n].source_field \in of_settings =>
                      at("trigger_import_via_schedule",
                         {task_settings.mapping_settings[n].source_field}) # {}
           /\ IF task_settings.import_dependent_fields
              THEN at("import_dependent_fields", {""}) = {Len(chain)}
              ELSE at("import_dependent_fields", {""}) = {}

\* a chain with the CATEGORY import, two mapping-setting imports and the
\* dependent-fields task has been executed to its end
C31_full_chain_executed ==
    /\ kpc = "returned"
    /\ chain_position = Len(chain)
    /\ task_settings.import_categories
    /\ task_settings.import_dependent_fields
    /\ Len(task_settings.mapping_settings) = 2
    /\ Len(chain) >= 4

====
